---- MODULE Spec2Model ----
(***************************************************************************)
(* A model of the monthly analytics of courier_ecosystem                   *)
(* (src/scripts/monthly_analytics.py): the report window calculator, the   *)
(* text normalizer and salary-period classifier, the metric aggregator     *)
(* with its period comparison and its trend, and the orchestrating city    *)
(* loop, with the paginated record loader and the two places of the chart  *)
(* that the report is compared with; and of the workflow alert handler of  *)
(* src/scripts/alert_handler.py.                                           *)
(*                                                                         *)
(* The specifications share the variables; each one drives one part of the *)
(* program and leaves the variables of the other parts at rest:            *)
(*   SpecWindow    get_previous_month_range,                               *)
(*                 get_month_before_previous_range                         *)
(*   SpecText      normalize_text, is_monthly_salary                       *)
(*   SpecAgg       analyze_monthly_metrics, months of a few records        *)
(*   SpecTrend     analyze_monthly_metrics, months of a week and more      *)
(*   SpecEma       calculate_ema, analyze_trend_from_ema                   *)
(*   Spec          main_monthly_report                                     *)
(*   SpecDuration  format_duration                                         *)
(*   SpecLoad      load_monthly_data_from_supabase, the page loop          *)
(*   SpecAlert     main of alert_handler.py, handle_workflow_event         *)
(***************************************************************************)
EXTENDS Integers, Sequences, FiniteSets, TLC

VARIABLES
    \* ---- window calculator (SpecWindow)
    wpc,          \* position of the caller: "idle", "ref", "cur", "cmp", "title"
    report_date,  \* the reference instant handed to the calculator
    cur_window,   \* <<month_start, month_end>> of get_previous_month_range
    cmp_window,   \* <<month_start, month_end>> of get_month_before_previous_range
    chart_title,  \* the month and year of the chart's title, or its error
    \* ---- text normalizer and classifier (SpecText)
    tpc,          \* "idle", "in", "norm", "renorm", "class"
    text_in,      \* the input text (a sequence of characters) or NaN
    text_out,     \* normalize_text(text_in)
    text_out2,    \* normalize_text(text_out)
    is_monthly,   \* is_monthly_salary(text_in)
    \* ---- metric aggregator (SpecAgg)
    apc,          \* "idle", "call", "done", "drawn"
    arg_city_data, \* the DataFrame handed to analyze_monthly_metrics
    arg_prev_data, \* the prior period's DataFrame handed to it, or None
    report,       \* what the call returned or raised
    chart_trend,  \* the trend annotation create_monthly_report_image draws
    \* ---- main_monthly_report (Spec)
    pc,           \* position in main_monthly_report
    env,          \* the environment variables that are set
    df_current,   \* the report month's DataFrame
    df_previous,  \* the comparison month's DataFrame, or None
    city_idx,     \* position of the city loop in CITIES
    prev_city_data, \* the comparison rows of the city in hand, or None
    city_metrics, \* the metrics of the city in hand
    successful_reports,
    failed_reports,
    sent,         \* the reports handed to Telegram, in order
    attempted,    \* history: the cities the loop has taken up, in order
    \* ---- calculate_ema and analyze_trend_from_ema (SpecEma)
    epc,          \* "idle", "series", "ema", "trend"
    ema_in,       \* the series of daily means handed to calculate_ema
    ema_span,     \* the span handed to calculate_ema
    ema_out,      \* the series calculate_ema returned
    trend_info,   \* what analyze_trend_from_ema returned for ema_out
    \* ---- format_duration (SpecDuration)
    dpc,          \* "idle", "call", "done"
    fd_start,     \* the argument start
    fd_end,       \* the argument end
    fd_result,    \* what the call returned or raised
    \* ---- the page loop of the record loader (SpecLoad)
    lpc,          \* "idle", "request", "done"
    page,         \* the loop's page counter
    all_data,     \* the rows collected so far
    requests,     \* history: the ranges <<from, to>> requested, in order
    responses,    \* history: the pages the source returned, in order
    \* ---- the alert handler (SpecAlert)
    hpc,          \* "idle", "start", "finished", "raised"
    gh_env,       \* the environment variables the handler reads
    sender_imported, \* whether scripts.alert_sender could be imported
    alerts,       \* the alerts handed to a sender, in order
    \* ---- the build
    stable_argsort \* whether the sort behind value_counts keeps equal counts in
                  \* their order of first appearance

wvars == <<wpc, report_date, cur_window, cmp_window, chart_title>>
tvars == <<tpc, text_in, text_out, text_out2, is_monthly>>
avars == <<apc, arg_city_data, arg_prev_data, report, chart_trend>>
mvars == <<pc, env, df_current, df_previous, city_idx, prev_city_data, city_metrics,
           successful_reports, failed_reports, sent, attempted>>
evars == <<epc, ema_in, ema_span, ema_out, trend_info>>
dvars == <<dpc, fd_start, fd_end, fd_result>>
lvars == <<lpc, page, all_data, requests, responses>>
hvars == <<hpc, gh_env, sender_imported, alerts>>
vars == <<wvars, tvars, avars, mvars, evars, dvars, lvars, hvars, stable_argsort>>

None == "None"

(***************************************************************************)
(* datetime: a civil date with a time of day in whole seconds.             *)
(***************************************************************************)
FirstYear == 2023
YearSpan == 1
SecondsPerDay == 24 * 3600
Years == FirstYear .. (FirstYear + YearSpan)

IsLeap(y) == (y % 4 = 0 /\ y % 100 # 0) \/ y % 400 = 0

DaysInMonth(y, m) ==
    IF m = 2 THEN (IF IsLeap(y) THEN 29 ELSE 28)
    ELSE IF m \in {4, 6, 9, 11} THEN 30 ELSE 31

DateTime(y, m, d, s) == [year |-> y, month |-> m, day |-> d, tod |-> s]

\* datetime.replace(year=y, month=m, day=d): the time of day is kept.
Replace(dt, y, m, d) == [dt EXCEPT !.year = y, !.month = m, !.day = d]

\* datetime.replace(hour=0, minute=0, second=0, microsecond=0)
ReplaceMidnight(dt) == [dt EXCEPT !.tod = 0]

\* dt - timedelta(seconds=1), with the borrow into the previous civil day.
MinusOneSecond(dt) ==
    IF dt.tod > 0 THEN [dt EXCEPT !.tod = dt.tod - 1]
    ELSE IF dt.day > 1 THEN [dt EXCEPT !.day = dt.day - 1, !.tod = SecondsPerDay - 1]
    ELSE IF dt.month > 1
         THEN DateTime(dt.year, dt.month - 1, DaysInMonth(dt.year, dt.month - 1),
                       SecondsPerDay - 1)
         ELSE DateTime(dt.year - 1, 12, 31, SecondsPerDay - 1)

\* The end of the month that starts at month_date: the first day of the next
\* month, taken from month_date by replace() (which keeps month_date's time of
\* day), minus one second.
MonthEnd(month_date) ==
    LET next_month ==
            IF month_date.month = 12
            THEN Replace(month_date, month_date.year + 1, 1, 1)
            ELSE Replace(month_date, month_date.year, month_date.month + 1, 1)
    IN  MinusOneSecond(next_month)

get_previous_month_range(rd) ==
    LET prev_month_date ==
            IF rd.month = 1
            THEN Replace(rd, rd.year - 1, 12, 1)
            ELSE Replace(rd, rd.year, rd.month - 1, 1)
        month_start == ReplaceMidnight(prev_month_date)
        month_end == MonthEnd(prev_month_date)
    IN  <<month_start, month_end>>

\* create_monthly_report_image, lines 546-557: the month before that of the
\* instant, taken by replace(), which keeps the day of the month and raises
\* ValueError when the month it is moved to has no such day.
ChartTitleMonth(now) ==
    LET y == IF now.month = 1 THEN now.year - 1 ELSE now.year
        m == IF now.month = 1 THEN 12 ELSE now.month - 1
    IN  IF now.day > DaysInMonth(y, m)
        THEN [raised |-> TRUE, month |-> 0, year |-> 0]
        ELSE [raised |-> FALSE, month |-> m, year |-> y]

get_month_before_previous_range(rd) ==
    LET two_months_ago ==
            IF rd.month = 1 THEN Replace(rd, rd.year - 1, 11, 1)
            ELSE IF rd.month = 2 THEN Replace(rd, rd.year - 1, 12, 1)
            ELSE Replace(rd, rd.year, rd.month - 2, 1)
        month_start == ReplaceMidnight(two_months_ago)
        month_end == MonthEnd(two_months_ago)
    IN  <<month_start, month_end>>

(***************************************************************************)
(* Text: a value of a free-text column is NaN or a string; a string is a   *)
(* sequence of characters, a character a short name.  Cyrillic letters are *)
(* written ru_x (lower case) and RU_X (upper case); NBSP is U+00A0, ZWSP   *)
(* is U+200B, IDSP is U+3000 (ideographic space), TAB is U+0009.           *)
(***************************************************************************)
NaN == [isna |-> TRUE, str |-> <<>>]
Str(s) == [isna |-> FALSE, str |-> s]

\* The character class of the pattern [ \t\n\r\f\v\xa0U+2000-U+200F].
InSpacePattern(c) == c \in {" ", "TAB", "NBSP", "ZWSP"}

\* str.isspace(), the characters str.strip() removes: U+200B is not one of
\* them, U+3000 is.
IsSpace(c) == c \in {" ", "TAB", "NBSP", "IDSP"}

UpperToLower ==
    [c \in {"M", "O", "N", "T", "H", "P", "U",
            "RU_V", "RU_M", "RU_E", "RU_S", "RU_YA", "RU_TS"} |->
        CASE c = "M" -> "m" [] c = "O" -> "o" [] c = "N" -> "n" [] c = "T" -> "t"
          [] c = "H" -> "h" [] c = "P" -> "p" [] c = "U" -> "u" [] c = "RU_V" -> "ru_v" [] c = "RU_M" -> "ru_m"
          [] c = "RU_E" -> "ru_e" [] c = "RU_S" -> "ru_s" [] c = "RU_YA" -> "ru_ya"
          [] c = "RU_TS" -> "ru_ts"]

IsUpper(c) == c \in DOMAIN UpperToLower

\* str.lower()
Lower(s) == [i \in 1 .. Len(s) |-> IF IsUpper(s[i]) THEN UpperToLower[s[i]] ELSE s[i]]

\* re.sub(r'[ \t\n\r\f\v\xa0U+2000-U+200F]+', ' ', s): every maximal run of
\* characters of the class becomes one ASCII space.
RECURSIVE SubSpaces(_)
SubSpaces(s) ==
    IF s = <<>> THEN <<>>
    ELSE IF InSpacePattern(Head(s))
         THEN IF Len(s) > 1 /\ InSpacePattern(s[2])
              THEN SubSpaces(Tail(s))
              ELSE <<" ">> \o SubSpaces(Tail(s))
         ELSE <<Head(s)>> \o SubSpaces(Tail(s))

RECURSIVE LStrip(_)
LStrip(s) == IF s # <<>> /\ IsSpace(Head(s)) THEN LStrip(Tail(s)) ELSE s

RECURSIVE RStrip(_)
RStrip(s) ==
    IF s # <<>> /\ IsSpace(s[Len(s)]) THEN RStrip(SubSeq(s, 1, Len(s) - 1)) ELSE s

\* str.strip()
Strip(s) == RStrip(LStrip(s))

\* A normalizer that trims before it collapses the runs.
normalize_text_strip_first(text) ==
    IF text.isna THEN text ELSE Str(Lower(SubSpaces(Strip(text.str))))

normalize_text(text) ==
    IF text.isna THEN text ELSE Str(Lower(Strip(SubSpaces(text.str))))

\* keyword in text: the substring test of the `in` operator.
StartsWith(s, k) == Len(k) <= Len(s) /\ SubSeq(s, 1, Len(k)) = k

RECURSIVE StrContains(_, _)
StrContains(s, k) ==
    IF Len(k) > Len(s) THEN FALSE
    ELSE StartsWith(s, k) \/ StrContains(Tail(s), k)

monthly_keywords ==
    << <<"ru_m", "ru_e", "ru_s", "ru_ya", "ru_ts">>,
       <<"m", "o", "n", "t", "h">>,
       <<"ru_m", "ru_e", "ru_s">> >>

\* A classifier that matches the keyword against the whole label.
is_monthly_salary_whole_label(text) ==
    IF text.isna THEN FALSE
    ELSE \E i \in DOMAIN monthly_keywords : normalize_text(text).str = monthly_keywords[i]

is_monthly_salary(text) ==
    IF text.isna THEN FALSE
    ELSE LET text_normalized == normalize_text(text).str
         IN  \E i \in DOMAIN monthly_keywords :
                 StrContains(text_normalized, monthly_keywords[i])

(***************************************************************************)
(* Numbers.  A nullable numeric column holds NaN or a number; a float the  *)
(* code computes by a division is kept as the exact ratio num/den in       *)
(* lowest terms (den > 0), so two floats are equal iff their ratios are.   *)
(***************************************************************************)
NaNum == [isna |-> TRUE, val |-> 0]
Num(n) == [isna |-> FALSE, val |-> n]

Abs(n) == IF n < 0 THEN -n ELSE n

RECURSIVE GCD(_, _)
GCD(a, b) == IF b = 0 THEN a ELSE GCD(b, a % b)

Ratio(n, d) ==
    LET g == GCD(Abs(n), d) IN [num |-> n \div g, den |-> d \div g]

\* A float whose value the model does not compute (median, std, quantiles).
Opaque == "float"

RECURSIVE SumSeq(_)
SumSeq(s) == IF s = <<>> THEN 0 ELSE Head(s) + SumSeq(Tail(s))

\* Series.mean() of a non-empty sequence of integers.
Mean(s) == Ratio(SumSeq(s), Len(s))

(***************************************************************************)
(* DataFrame: the set of its column names and the sequence of its rows.    *)
(* A row is a record of the columns the aggregator reads; employer_clean   *)
(* is a function of employer, so only the column's presence is kept.       *)
(***************************************************************************)
DataFrame(c, r) == [isnone |-> FALSE, cols |-> c, rows |-> r]

\* None where a DataFrame is expected (prev_month_data, df_previous).
NoneFrame == [isnone |-> TRUE, cols |-> {}, rows |-> <<>>]

\* pd.DataFrame(): no rows and no columns.
EmptyFrame == DataFrame({}, <<>>)

LoadedColumns ==
    {"city_slug", "employer", "salary_period_name", "salary_period_name_normalized",
     "salary_to_net", "salary_from_net", "schedule_name", "schedule_name_normalized",
     "published_day", "published_weekday"}

\* df[mask]: the rows that pass, with the same columns.
Filter(df, Test(_)) == DataFrame(df.cols, SelectSeq(df.rows, Test))

\* The column as the sequence of its values.
Column(rows, Field(_)) == [i \in 1 .. Len(rows) |-> Field(rows[i])]

Unspecified ==
    <<"RU_N", "ru_e", " ", "ru_u", "ru_k", "ru_a", "ru_z", "ru_a", "ru_n">>

\* city_data['employer'].str.strip().fillna('Не указан'), for one row
EmployerClean(row) ==
    IF row.employer.isna THEN Unspecified ELSE Strip(row.employer.str)

(***************************************************************************)
(* Series.value_counts(): the distinct non-NaN values with their counts,   *)
(* the largest count first.  The counts are sorted from the order of first *)
(* appearance by a sort that pandas does not promise to be stable: a build *)
(* whose sort is stable keeps equal counts in that order, another build    *)
(* may return them in a different one (here: the reverse).                 *)
(***************************************************************************)
RECURSIVE Distinct(_, _)
Distinct(s, seen) ==
    IF s = <<>> THEN <<>>
    ELSE IF Head(s) \in seen THEN Distinct(Tail(s), seen)
         ELSE <<Head(s)>> \o Distinct(Tail(s), seen \cup {Head(s)})

CountOf(s, k) == Cardinality({i \in 1 .. Len(s) : s[i] = k})

\* Insert pair p behind every pair whose count is at least p's.
RECURSIVE InsertByCount(_, _)
InsertByCount(sorted, p) ==
    IF sorted = <<>> THEN <<p>>
    ELSE IF Head(sorted)[2] >= p[2]
         THEN <<Head(sorted)>> \o InsertByCount(Tail(sorted), p)
         ELSE <<p>> \o sorted

RECURSIVE SortByCount(_)
SortByCount(pairs) ==
    IF pairs = <<>> THEN <<>>
    ELSE InsertByCount(SortByCount(SubSeq(pairs, 1, Len(pairs) - 1)), pairs[Len(pairs)])

\* The sequence back to front.
Reverse(s) == [i \in 1 .. Len(s) |-> s[Len(s) + 1 - i]]

value_counts(values) ==
    LET keys == Distinct(values, {})
        pairs == [i \in 1 .. Len(keys) |-> <<keys[i], CountOf(values, keys[i])>>]
    IN  IF stable_argsort THEN SortByCount(pairs) ELSE SortByCount(Reverse(pairs))

\* Series.head(n)
HeadN(s, n) == SubSeq(s, 1, IF Len(s) < n THEN Len(s) ELSE n)

\* The non-NaN strings of a text column, in row order.
TextValues(rows, Field(_)) ==
    LET present == SelectSeq(rows, LAMBDA r : ~Field(r).isna)
    IN  [i \in 1 .. Len(present) |-> Field(present[i]).str]

(***************************************************************************)
(* analyze_monthly_metrics.  The result is the dictionary `metrics` (a     *)
(* function from the keys present to their values), or the exception the   *)
(* call raised.                                                            *)
(***************************************************************************)
EmptyDict == [k \in {} |-> 0]
Returned(m) == [raised |-> FALSE, error |-> "", metrics |-> m]
Raised(e) == [raised |-> TRUE, error |-> e, metrics |-> EmptyDict]

TrendMinDays == 7
TopSchedules == 3
TopEmployers == 5
MinEmployerVacancies == 3

\* DataFrame.round(0) of a non-negative ratio: to the nearest integer, a half
\* to the even one.
RoundHalfEven(q) ==
    LET f == q.num \div q.den
        r == q.num % q.den
    IN  IF 2 * r < q.den THEN f
        ELSE IF 2 * r > q.den THEN f + 1
        ELSE IF f % 2 = 0 THEN f ELSE f + 1

\* The rows with a monthly salary: the label classifies as monthly and the net
\* upper bound is present (lines 203-204).
IsMonthlyRowNoNotna(row) ==
    is_monthly_salary(row.salary_period_name_normalized)

IsMonthlyRow(row) ==
    is_monthly_salary(row.salary_period_name_normalized) /\ ~row.salary_to_net.isna

\* 100 * part / whole as the code guards it: 0 when whole is not positive.
PercentUnscaled(part, whole) == IF whole > 0 THEN Ratio(part, whole) ELSE Ratio(0, 1)

\* The same with the operands exchanged: 100 * whole / part.
PercentInverted(part, whole) == IF part > 0 THEN Ratio(100 * whole, part) ELSE Ratio(0, 1)

Percent(part, whole) == IF whole > 0 THEN Ratio(100 * part, whole) ELSE Ratio(0, 1)

(***************************************************************************)
(* Arithmetic of the floats kept as ratios.                                *)
(***************************************************************************)
RatioAdd(a, b) == Ratio(a.num * b.den + b.num * a.den, a.den * b.den)
RatioSub(a, b) == Ratio(a.num * b.den - b.num * a.den, a.den * b.den)
RatioMul(a, b) == Ratio(a.num * b.num, a.den * b.den)

(***************************************************************************)
(* calculate_ema: series.ewm(span=span, adjust=False).mean().  With        *)
(* alpha = 2 / (span + 1) the first value is the first observation and     *)
(* every later one is (1 - alpha) * previous + alpha * observation.  A     *)
(* series is the sequence of its values in index order.                    *)
(***************************************************************************)
RECURSIVE EwmFrom(_, _, _)
EwmFrom(rest, last, alpha) ==
    IF rest = <<>> THEN <<>>
    ELSE LET y == RatioAdd(RatioMul(RatioSub(Ratio(1, 1), alpha), last),
                           RatioMul(alpha, Head(rest)))
         IN  <<y>> \o EwmFrom(Tail(rest), y, alpha)

\* The same recurrence started from 0 instead of the first observation.
EwmMeanFromZero(series, alpha) == EwmFrom(series, Ratio(0, 1), alpha)

EwmMean(series, alpha) ==
    IF series = <<>> THEN <<>>
    ELSE <<Head(series)>> \o EwmFrom(Tail(series), Head(series), alpha)

\* The same with the span taken as a centre of mass: alpha = 1 / (span + 1).
calculate_ema_com(series, span) == EwmMean(series, Ratio(1, span + 1))

calculate_ema(series, span) == EwmMean(series, Ratio(2, span + 1))

\* The span of the report's trend (line 237) and the fewest daily means the
\* chart smooths (line 490).
EmaSpan == 7
MinChartDays == 3

(***************************************************************************)
(* analyze_trend_from_ema (lines 88-125).  The Russian words of the result *)
(* are written in Latin letters.                                           *)
(***************************************************************************)
\* Lines 99-104 with the comparisons made non-strict.
TrendStrengthNonStrict(trend_pct) ==
    IF Abs(trend_pct.num) >= 5 * trend_pct.den THEN "silnyy"
    ELSE IF Abs(trend_pct.num) >= 2 * trend_pct.den THEN "umerennyy"
    ELSE "slabyy"

\* Lines 99-104: abs(trend_pct) > 5, > 2
TrendStrength(trend_pct) ==
    IF Abs(trend_pct.num) > 5 * trend_pct.den THEN "silnyy"
    ELSE IF Abs(trend_pct.num) > 2 * trend_pct.den THEN "umerennyy"
    ELSE "slabyy"

\* Lines 107-115 with the thresholds of the strength: 5 in place of 1.
TrendDirectionAtFive(trend_pct) ==
    IF trend_pct.num > 5 * trend_pct.den THEN "voskhodyashchiy"
    ELSE IF trend_pct.num < -5 * trend_pct.den THEN "niskhodyashchiy"
    ELSE "bokovoy"

\* Lines 107-115: trend_pct > 1, < -1
TrendDirection(trend_pct) ==
    IF trend_pct.num > trend_pct.den THEN "voskhodyashchiy"
    ELSE IF trend_pct.num < -trend_pct.den THEN "niskhodyashchiy"
    ELSE "bokovoy"

analyze_trend_from_ema(ema_series) ==
    IF Len(ema_series) < 2 THEN EmptyDict
    ELSE LET trend_start == ema_series[1]
             trend_end == ema_series[Len(ema_series)]
             trend_change == RatioSub(trend_end, trend_start)
             trend_pct == IF trend_start.num > 0
                          THEN RatioMul(Ratio(trend_change.num * trend_start.den,
                                              trend_change.den * trend_start.num),
                                        Ratio(100, 1))
                          ELSE Ratio(0, 1)
         IN  ("start" :> trend_start) @@ ("end" :> trend_end)
             @@ ("change" :> trend_change) @@ ("pct" :> trend_pct)
             @@ ("direction" :> TrendDirection(trend_pct))
             @@ ("strength" :> TrendStrength(trend_pct))
             @@ ("emoji" :> IF TrendDirection(trend_pct) = "voskhodyashchiy"
                            THEN "chart_increasing"
                            ELSE IF TrendDirection(trend_pct) = "niskhodyashchiy"
                            THEN "chart_decreasing"
                            ELSE "arrow_right")

\* The elements of a finite set of integers in ascending order.
RECURSIVE SortedSeq(_)
SortedSeq(S) ==
    IF S = {} THEN <<>>
    ELSE LET m == CHOOSE x \in S : \A y \in S : x <= y
         IN  <<m>> \o SortedSeq(S \ {m})

\* Line 235 without the grouping: one value per row.
DailyAvgSalaryPerRow(rows) == Column(rows, LAMBDA r : Ratio(r.salary_to_net.val, 1))

\* Line 235: groupby('published_day')['salary_to_net'].mean(), the mean of each
\* day's salaries in ascending order of the day.
DailyAvgSalary(rows) ==
    LET days == SortedSeq({rows[i].published_day : i \in 1 .. Len(rows)})
        of_day(d) == SelectSeq(rows, LAMBDA r : r.published_day = d)
    IN  [i \in 1 .. Len(days) |->
            Mean(Column(of_day(days[i]), LAMBDA r : r.salary_to_net.val))]

\* Lines 233-239: the trend of the daily means, once there are enough days.
TrendMetrics(monthly_salary_data) ==
    IF "published_day" \notin monthly_salary_data.cols THEN EmptyDict
    ELSE LET daily_avg_salary == DailyAvgSalary(monthly_salary_data.rows)
         IN  IF Len(daily_avg_salary) >= TrendMinDays
             THEN LET ema_series == calculate_ema(daily_avg_salary, EmaSpan)
                  IN  "trend_analysis" :> analyze_trend_from_ema(ema_series)
             ELSE EmptyDict

\* Lines 209-239: the salary distribution of the monthly rows.
SalaryMetrics(monthly_salary_data) ==
    LET rows == monthly_salary_data.rows
        salaries == Column(rows, LAMBDA r : r.salary_to_net.val)
        salary_with_range == SelectSeq(rows, LAMBDA r : ~r.salary_from_net.isna)
        ranges == Column(salary_with_range,
                         LAMBDA r : r.salary_to_net.val - r.salary_from_net.val)
        has_range == "salary_from_net" \in monthly_salary_data.cols
                     /\ Len(salary_with_range) > 0
    IN  IF Len(rows) = 0 THEN EmptyDict
        ELSE ("avg_salary" :> Mean(salaries))
             @@ ("median_salary" :> Opaque) @@ ("salary_std" :> Opaque)
             @@ ("q25" :> Opaque) @@ ("q75" :> Opaque)
             @@ ("q90" :> Opaque) @@ ("q10" :> Opaque)
             @@ ("avg_salary_range" :> IF has_range THEN Mean(ranges) ELSE Ratio(0, 1))
             @@ ("vacancies_with_range" :> IF has_range THEN Len(salary_with_range) ELSE 0)
             @@ TrendMetrics(monthly_salary_data)

\* Lines 241-251: the schedule and weekday tables.
ScheduleMetrics(city_data) ==
    IF "schedule_name_normalized" \notin city_data.cols THEN EmptyDict
    ELSE LET schedule_counts ==
                 value_counts(TextValues(city_data.rows,
                                         LAMBDA r : r.schedule_name_normalized))
         IN  ("top_schedules" :> HeadN(schedule_counts, TopSchedules))
             @@ ("total_schedules" :> Len(schedule_counts))

WeekdayMetrics(city_data) ==
    IF "published_weekday" \notin city_data.cols THEN EmptyDict
    ELSE LET weekday_counts ==
                 value_counts(Column(city_data.rows, LAMBDA r : r.published_weekday))
         IN  ("top_weekday" :> IF Len(weekday_counts) > 0 THEN weekday_counts[1][1]
                                                           ELSE None)
             @@ ("weekday_counts" :> weekday_counts)

\* Lines 260-269: the employers of the monthly rows with at least three
\* records, by rounded mean salary.  The groups are listed in order of first
\* appearance; with fewer than six rows at most one group has three records.
EmployerSalaryTable(rows) ==
    LET clean == Column(rows, EmployerClean)
        keys == Distinct(clean, {})
        group(k) == SelectSeq(rows, LAMBDA r : EmployerClean(r) = k)
        table == [i \in 1 .. Len(keys) |->
                     <<keys[i],
                       RoundHalfEven(Mean(Column(group(keys[i]),
                                                 LAMBDA r : r.salary_to_net.val))),
                       Len(group(keys[i]))>>]
        enough == SelectSeq(table, LAMBDA t : t[3] >= MinEmployerVacancies)
    IN  HeadN(SortByCount([i \in 1 .. Len(enough) |-> <<enough[i][1], enough[i][2]>>]),
              TopEmployers)

\* Lines 253-269.  monthly_salary_data was cut from city_data before the
\* column employer_clean is added to city_data, so it has that column only
\* if city_data had it on entry.
EmployerMetrics(city_data, monthly_salary_data) ==
    IF "employer" \notin city_data.cols THEN EmptyDict
    ELSE LET employer_counts ==
                 HeadN(value_counts(Column(city_data.rows, EmployerClean)), TopEmployers)
             by_salary ==
                 IF Len(monthly_salary_data.rows) > 0
                    /\ "employer_clean" \in monthly_salary_data.cols
                 THEN EmployerSalaryTable(monthly_salary_data.rows)
                 ELSE <<>>
         IN  ("top_employers_count" :> employer_counts)
             @@ (IF Len(by_salary) > 0 THEN "top_employers_salary" :> by_salary
                                       ELSE EmptyDict)

\* Sections 1-5 (lines 196-269): the call without a prior period.
AnalyzePeriod(city_data) ==
    IF "salary_period_name_normalized" \notin city_data.cols
    THEN Raised("KeyError: salary_period_name_normalized")
    ELSE IF "salary_to_net" \notin city_data.cols
    THEN Raised("KeyError: salary_to_net")
    ELSE LET total == Len(city_data.rows)
             monthly_salary_data == Filter(city_data, IsMonthlyRow)
             with_monthly == Len(monthly_salary_data.rows)
         IN  Returned(("total_vacancies" :> total)
                      @@ ("with_monthly_salary" :> with_monthly)
                      @@ ("salary_percentage" :> Percent(with_monthly, total))
                      @@ SalaryMetrics(monthly_salary_data)
                      @@ ScheduleMetrics(city_data)
                      @@ WeekdayMetrics(city_data)
                      @@ EmployerMetrics(city_data, monthly_salary_data))

\* city_data after the call: line 256 adds the column employer_clean to it.
AfterAnalyze(city_data) ==
    IF {"salary_period_name_normalized", "salary_to_net", "employer"} \subseteq city_data.cols
    THEN DataFrame(city_data.cols \cup {"employer_clean"}, city_data.rows)
    ELSE city_data

\* dict.get(key, default)
Get(d, k, default) == IF k \in DOMAIN d THEN d[k] ELSE default

\* Lines 271-281: the comparison with the prior period.  prev_month_data is
\* None or a DataFrame.
HasPrevNoLenCheck(prev_month_data) == ~prev_month_data.isnone

HasPrev(prev_month_data) == ~prev_month_data.isnone /\ Len(prev_month_data.rows) > 0

GrowthMetrics(metrics, prev_month_metrics) ==
    LET prev_month_total == Get(prev_month_metrics, "total_vacancies", 0)
        total_growth == metrics["total_vacancies"] - prev_month_total
        both_avg == "avg_salary" \in DOMAIN metrics
                    /\ "avg_salary" \in DOMAIN prev_month_metrics
        cur_avg == metrics["avg_salary"]
        prev_avg == prev_month_metrics["avg_salary"]
        \* the difference of the two means, over the common denominator
        salary_growth == Ratio(cur_avg.num * prev_avg.den - prev_avg.num * cur_avg.den,
                               cur_avg.den * prev_avg.den)
    IN  ("prev_month_total" :> prev_month_total)
        @@ ("total_growth" :> total_growth)
        @@ ("total_growth_pct" :> Percent(total_growth, prev_month_total))
        @@ (IF both_avg
            THEN ("salary_growth" :> salary_growth)
                 @@ ("salary_growth_pct" :>
                        IF prev_avg.num > 0
                        THEN Ratio(100 * salary_growth.num * prev_avg.den,
                                   salary_growth.den * prev_avg.num)
                        ELSE Ratio(0, 1))
            ELSE EmptyDict)

analyze_monthly_metrics(city_data, prev_month_data) ==
    LET cur == AnalyzePeriod(city_data)
    IN  IF cur.raised THEN cur
        ELSE IF ~HasPrev(prev_month_data) THEN cur
        ELSE LET prev == AnalyzePeriod(prev_month_data)
             IN  IF prev.raised THEN prev
                 ELSE Returned(cur.metrics @@ GrowthMetrics(cur.metrics, prev.metrics))

(***************************************************************************)
(* create_monthly_report_image, the trend panel (lines 300-301, 464-509):  *)
(* the annotation drawn over the panel, or the empty dict when none is     *)
(* drawn.  The daily means are those of the days 1..31 that have one, in   *)
(* day order; direction is written in capitals and pct with one decimal    *)
(* (kept in tenths).                                                       *)
(***************************************************************************)
ChartTrendAnnotation(city_data) ==
    LET monthly_salary_data == Filter(city_data, IsMonthlyRow)
        valid_avg == DailyAvgSalary(monthly_salary_data.rows)
        span == IF Len(valid_avg) < 7 THEN Len(valid_avg) ELSE 7
        trend == analyze_trend_from_ema(calculate_ema(valid_avg, span))
    IN  IF /\ "published_day" \in city_data.cols
           /\ Len(monthly_salary_data.rows) > 0
           /\ Len(valid_avg) > 1
           /\ Len(valid_avg) >= MinChartDays
           /\ trend # EmptyDict
        THEN ("emoji" :> trend["emoji"])
             @@ ("direction" :> IF trend["direction"] = "voskhodyashchiy"
                                THEN "VOSKHODYASHCHIY"
                                ELSE IF trend["direction"] = "niskhodyashchiy"
                                THEN "NISKHODYASHCHIY"
                                ELSE "BOKOVOY")
             @@ ("strength" :> trend["strength"])
             @@ ("pct" :> RoundHalfEven(Ratio(10 * trend["pct"].num,
                                              trend["pct"].den)))
        ELSE EmptyDict

(***************************************************************************)
(* format_duration (alert_handler.py, lines 76-94).  A timestamp argument  *)
(* is kept by its shape and, when it has the shape digits-digits-digits    *)
(* T digits:digits:digits Z, the six numbers it spells:                    *)
(*   "stamp"   that shape, the year in four digits, the rest in one or two *)
(*   "empty"   the empty string                                            *)
(*   "no_z"    a stamp without the final Z                                 *)
(*   "offset"  a stamp followed by more text (a UTC offset)                *)
(*   "text"    any other text                                              *)
(*   "none"    None, not a string                                          *)
(***************************************************************************)
Stamp(y, mo, d, h, mi, sec) ==
    [shape |-> "stamp", year |-> y, month |-> mo, day |-> d,
     hour |-> h, minute |-> mi, second |-> sec]

NotStamp(shape) ==
    [shape |-> shape, year |-> 0, month |-> 0, day |-> 0,
     hour |-> 0, minute |-> 0, second |-> 0]

\* datetime.strptime(text, "%Y-%m-%dT%H:%M:%SZ"): the datetime, or the
\* exception raised.  The pattern matches when the literal characters are
\* there and each directive finds a number it accepts (%S accepts 60 and 61);
\* the datetime constructor then has to accept the numbers found.
strptime(text) ==
    LET matches == /\ text.shape = "stamp"
                   /\ text.month \in 1 .. 12 /\ text.day \in 1 .. 31
                   /\ text.hour \in 0 .. 23 /\ text.minute \in 0 .. 59
                   /\ text.second \in 0 .. 61
        valid == /\ text.year \in 1 .. 9999
                 /\ text.day <= DaysInMonth(text.year, text.month)
                 /\ text.second <= 59
    IN  IF text.shape = "none"
        THEN [raised |-> TRUE, error |-> "TypeError", value |-> DateTime(0, 0, 0, 0)]
        ELSE IF ~matches \/ ~valid
        THEN [raised |-> TRUE, error |-> "ValueError", value |-> DateTime(0, 0, 0, 0)]
        ELSE [raised |-> FALSE, error |-> "",
              value |-> DateTime(text.year, text.month, text.day,
                                 3600 * text.hour + 60 * text.minute + text.second)]

\* (end_dt - start_dt).total_seconds(), by the days from 1 January of year 1
\* to each date.
TotalSeconds(end_dt, start_dt) ==
    LET ordinal(dt) ==
            365 * (dt.year - 1) + (dt.year - 1) \div 4 - (dt.year - 1) \div 100
            + (dt.year - 1) \div 400
            + <<0, 31, 59, 90, 120, 151, 181, 212, 243, 273, 304, 334>>[dt.month]
            + (IF dt.month > 2 /\ IsLeap(dt.year) THEN 1 ELSE 0)
            + dt.day
    IN  (ordinal(end_dt) - ordinal(start_dt)) * SecondsPerDay + end_dt.tod - start_dt.tod

\* The text the function returns, by its pattern and the numbers in it:
\* "hm" is "<a>ch <b>m", "ms" is "<a>m <b>s", "s" is "<a>s".
DurationText(kind, a, b) == [raised |-> FALSE, kind |-> kind, a |-> a, b |-> b]
Unknown == DurationText("unknown", 0, 0)

\* Lines 84-92: divmod by 3600 and by 60, and the three patterns.
FormatSeconds(total) ==
    LET hours == total \div 3600
        remainder == total % 3600
        minutes == remainder \div 60
        seconds == remainder % 60
    IN  IF hours > 0 THEN DurationText("hm", hours, minutes)
        ELSE IF minutes > 0 THEN DurationText("ms", minutes, seconds)
        ELSE DurationText("s", seconds, 0)

\* The function without its except clause.
format_duration_no_except(start, end) ==
    LET start_dt == strptime(start)
        end_dt == strptime(end)
    IN  IF start_dt.raised \/ end_dt.raised
        THEN [raised |-> TRUE, kind |-> "exception", a |-> 0, b |-> 0]
        ELSE FormatSeconds(TotalSeconds(end_dt.value, start_dt.value))

format_duration(start, end) ==
    LET start_dt == strptime(start)
        end_dt == strptime(end)
    IN  IF start_dt.raised \/ end_dt.raised THEN Unknown
        ELSE FormatSeconds(TotalSeconds(end_dt.value, start_dt.value))

(***************************************************************************)
(* The parts at rest: what each specification keeps of the other parts.    *)
(***************************************************************************)
NoDate == DateTime(0, 0, 0, 0)
NoWindow == <<NoDate, NoDate>>

WindowIdle ==
    wpc = "idle" /\ report_date = NoDate /\ cur_window = NoWindow /\ cmp_window = NoWindow
    /\ chart_title = [raised |-> FALSE, month |-> 0, year |-> 0]

TextIdle ==
    tpc = "idle" /\ text_in = NaN /\ text_out = NaN /\ text_out2 = NaN /\ is_monthly = FALSE

AggIdle ==
    apc = "idle" /\ arg_city_data = NoneFrame /\ arg_prev_data = NoneFrame
    /\ report = Returned(EmptyDict) /\ chart_trend = EmptyDict

MainIdle ==
    /\ pc = "idle" /\ env = {} /\ df_current = NoneFrame /\ df_previous = NoneFrame
    /\ city_idx = 0 /\ prev_city_data = NoneFrame /\ city_metrics = EmptyDict
    /\ successful_reports = 0 /\ failed_reports = 0 /\ sent = <<>>
    /\ attempted = <<>>

EmaIdle ==
    epc = "idle" /\ ema_in = <<>> /\ ema_span = 0 /\ ema_out = <<>>
    /\ trend_info = EmptyDict

DurationIdle ==
    dpc = "idle" /\ fd_start = NotStamp("empty") /\ fd_end = NotStamp("empty")
    /\ fd_result = DurationText("pending", 0, 0)

LoadIdle ==
    lpc = "idle" /\ page = 0 /\ all_data = <<>> /\ requests = <<>> /\ responses = <<>>

AlertIdle ==
    hpc = "idle"
    /\ gh_env = [GITHUB_EVENT_NAME |-> "",
                 EVENT_CONTEXT |-> [shape |-> "absent", name |-> <<>>,
                                    status |-> "(absent)", conclusion |-> "(absent)"],
                 TG_ALERT_BOT_TOKEN |-> FALSE, TG_ALERT_CHAT_ID |-> FALSE]
    /\ sender_imported = TRUE /\ alerts = <<>>

(***************************************************************************)
(* SpecWindow: main_monthly_report's two calls of the window calculator    *)
(* (lines 709-720) for a reference instant datetime.now() may return, and  *)
(* the month of the title of a chart drawn in that run.                    *)
(***************************************************************************)
TimesOfDay == {0, 1, 10 * 3600 + 30 * 60, SecondsPerDay - 1}

ReportDates ==
    {DateTime(y, m, d, t) : y \in Years, m \in 1 .. 12, d \in 1 .. 31, t \in TimesOfDay}

WindowInit ==
    /\ wpc = "ref"
    /\ report_date \in {dt \in ReportDates : dt.day <= DaysInMonth(dt.year, dt.month)}
    /\ cur_window = NoWindow
    /\ cmp_window = NoWindow
    /\ chart_title = [raised |-> FALSE, month |-> 0, year |-> 0]
    /\ TextIdle /\ AggIdle /\ MainIdle /\ EmaIdle /\ DurationIdle
    /\ LoadIdle /\ AlertIdle
    /\ stable_argsort = TRUE

\* line 714
CallPreviousMonthRange ==
    /\ wpc = "ref"
    /\ cur_window' = get_previous_month_range(report_date)
    /\ wpc' = "cur"
    /\ UNCHANGED <<report_date, cmp_window, chart_title, tvars, avars, mvars, evars, dvars, lvars, hvars, stable_argsort>>

\* line 720
CallMonthBeforePreviousRange ==
    /\ wpc = "cur"
    /\ cmp_window' = get_month_before_previous_range(report_date)
    /\ wpc' = "cmp"
    /\ UNCHANGED <<report_date, cur_window, chart_title, tvars, avars, mvars, evars, dvars, lvars, hvars, stable_argsort>>

\* Line 800 -> 546-557: the chart of a city reads the clock again for its
\* title; the run is taken to be short enough for the date to be the same.
DrawChartTitle ==
    /\ wpc = "cmp"
    /\ chart_title' = ChartTitleMonth(report_date)
    /\ wpc' = "title"
    /\ UNCHANGED <<report_date, cur_window, cmp_window, tvars, avars, mvars, evars, dvars, lvars, hvars, stable_argsort>>

WindowNext == CallPreviousMonthRange \/ CallMonthBeforePreviousRange \/ DrawChartTitle

SpecWindow == WindowInit /\ [][WindowNext]_vars

(***************************************************************************)
(* SpecText: normalize_text applied to a text and to its own result, and   *)
(* is_monthly_salary applied to the text.  The texts are NaN, the labels   *)
(* of the documentation, and every concatenation of up to MaxFragments     *)
(* fragments.                                                              *)
(***************************************************************************)
MaxFragments == 3

Fragments ==
    { <<" ">>, <<"NBSP">>, <<"ZWSP">>, <<"IDSP">>, <<"TAB">>,
      <<"RU_V">>, <<".">>,
      <<"RU_M", "RU_E", "RU_S">>, <<"ru_ya", "ru_ts">>,
      <<"m", "o", "n">>, <<"T", "H">> }

\* "  V MESYATS " and "za chas", the labels of the classifier's examples
LabelPerMonthUpper ==
    <<" ", " ", "RU_V", " ", "RU_M", "RU_E", "RU_S", "RU_YA", "RU_TS", " ">>
LabelPerHour == <<"ru_z", "ru_a", " ", "ru_ch", "ru_a", "ru_s">>

RECURSIVE Concatenations(_)
Concatenations(n) ==
    IF n = 0 THEN {<<>>}
    ELSE LET shorter == Concatenations(n - 1)
         IN  shorter \cup {s \o f : s \in shorter, f \in Fragments}

Texts ==
    {NaN, Str(LabelPerMonthUpper), Str(LabelPerHour)}
    \cup {Str(s) : s \in Concatenations(MaxFragments)}

TextInit ==
    /\ tpc = "in"
    /\ text_in \in Texts
    /\ text_out = NaN /\ text_out2 = NaN /\ is_monthly = FALSE
    /\ WindowIdle /\ AggIdle /\ MainIdle /\ EmaIdle /\ DurationIdle
    /\ LoadIdle /\ AlertIdle
    /\ stable_argsort = TRUE

NormalizeText ==
    /\ tpc = "in"
    /\ text_out' = normalize_text(text_in)
    /\ tpc' = "norm"
    /\ UNCHANGED <<text_in, text_out2, is_monthly, wvars, avars, mvars, evars, dvars, lvars, hvars, stable_argsort>>

NormalizeAgain ==
    /\ tpc = "norm"
    /\ text_out2' = normalize_text(text_out)
    /\ tpc' = "renorm"
    /\ UNCHANGED <<text_in, text_out, is_monthly, wvars, avars, mvars, evars, dvars, lvars, hvars, stable_argsort>>

ClassifyText ==
    /\ tpc = "renorm"
    /\ is_monthly' = is_monthly_salary(text_in)
    /\ tpc' = "class"
    /\ UNCHANGED <<text_in, text_out, text_out2, wvars, avars, mvars, evars, dvars, lvars, hvars, stable_argsort>>

TextNext == NormalizeText \/ NormalizeAgain \/ ClassifyText

SpecText == TextInit /\ [][TextNext]_vars

(***************************************************************************)
(* SpecAgg: one call of analyze_monthly_metrics.  The rows are those the   *)
(* loader builds (lines 165-178) from four kinds of vacancy; city_data is  *)
(* pd.DataFrame() or a frame of up to MaxRows rows, prev_month_data is     *)
(* None, pd.DataFrame() or a frame of up to MaxPrevRows rows.              *)
(***************************************************************************)
MaxRows == 4
MaxPrevRows == 2

\* Lines 174-178: the normalized text columns of a row of the table.
LoadRow(raw) ==
    [city_slug |-> raw.city_slug,
     employer |-> raw.employer,
     salary_period_name |-> raw.salary_period_name,
     salary_period_name_normalized |-> normalize_text(raw.salary_period_name),
     salary_to_net |-> raw.salary_to_net,
     salary_from_net |-> raw.salary_from_net,
     schedule_name |-> raw.schedule_name,
     schedule_name_normalized |-> normalize_text(raw.schedule_name),
     published_day |-> raw.published_day,
     published_weekday |-> raw.published_weekday]

\* "  V MESYATS ", 3000 net, from 1000, employer "a", schedule "ON"
VacancyMonthly ==
    [city_slug |-> "msk", employer |-> Str(<<"a">>),
     salary_period_name |-> Str(LabelPerMonthUpper),
     salary_to_net |-> Num(3000), salary_from_net |-> Num(1000),
     schedule_name |-> Str(<<"O", "N">>),
     published_day |-> 1, published_weekday |-> "Monday"]

\* "month", 1000 net, no lower bound, employer " a", schedule "on "
VacancyMonthlyNoRange ==
    [city_slug |-> "msk", employer |-> Str(<<" ", "a">>),
     salary_period_name |-> Str(<<"m", "o", "n", "t", "h">>),
     salary_to_net |-> Num(1000), salary_from_net |-> NaNum,
     schedule_name |-> Str(<<"o", "n", " ">>),
     published_day |-> 2, published_weekday |-> "Tuesday"]

\* "za chas", 2000 net, from 1500, no employer, no schedule
VacancyHourly ==
    [city_slug |-> "msk", employer |-> NaN,
     salary_period_name |-> Str(LabelPerHour),
     salary_to_net |-> Num(2000), salary_from_net |-> Num(1500),
     schedule_name |-> NaN,
     published_day |-> 3, published_weekday |-> "Monday"]

\* "mes.", no salary, blank employer
VacancyMonthlyNoSalary ==
    [city_slug |-> "msk", employer |-> Str(<<" ">>),
     salary_period_name |-> Str(<<"ru_m", "ru_e", "ru_s", ".">>),
     salary_to_net |-> NaNum, salary_from_net |-> NaNum,
     schedule_name |-> Str(<<"t", "h">>),
     published_day |-> 4, published_weekday |-> "Sunday"]

Vacancies == {VacancyMonthly, VacancyMonthlyNoRange, VacancyHourly, VacancyMonthlyNoSalary}
PrevVacancies == {VacancyMonthly, VacancyHourly}

RECURSIVE SeqsUpTo(_, _)
SeqsUpTo(S, n) ==
    IF n = 0 THEN {<<>>}
    ELSE LET shorter == SeqsUpTo(S, n - 1)
         IN  shorter \cup {Append(q, x) : q \in shorter, x \in S}

Loaded(raws) == DataFrame(LoadedColumns, [i \in 1 .. Len(raws) |-> LoadRow(raws[i])])

AggInit ==
    /\ apc = "call"
    /\ arg_city_data \in {EmptyFrame} \cup {Loaded(r) : r \in SeqsUpTo(Vacancies, MaxRows)}
    /\ arg_prev_data \in {NoneFrame, EmptyFrame}
                         \cup {Loaded(r) : r \in SeqsUpTo(PrevVacancies, MaxPrevRows)}
    /\ report = Returned(EmptyDict)
    /\ chart_trend = EmptyDict
    /\ WindowIdle /\ TextIdle /\ MainIdle /\ EmaIdle /\ DurationIdle
    /\ LoadIdle /\ AlertIdle
    /\ stable_argsort \in BOOLEAN

\* The call: what it returns or raises, and the column it adds to both of
\* its arguments (line 256, in the call and in the nested call of line 273).
Analyze ==
    /\ apc = "call"
    /\ report' = analyze_monthly_metrics(arg_city_data, arg_prev_data)
    /\ arg_city_data' = AfterAnalyze(arg_city_data)
    /\ arg_prev_data' = IF AnalyzePeriod(arg_city_data).raised \/ ~HasPrev(arg_prev_data)
                        THEN arg_prev_data
                        ELSE AfterAnalyze(arg_prev_data)
    /\ apc' = "done"
    /\ UNCHANGED <<chart_trend, wvars, tvars, mvars, evars, dvars, lvars, hvars, stable_argsort>>

\* Line 800, the trend panel of the image made from the frame and the
\* metrics of the call.
DrawTrendPanel ==
    /\ apc = "done"
    /\ ~report.raised
    /\ chart_trend' = ChartTrendAnnotation(arg_city_data)
    /\ apc' = "drawn"
    /\ UNCHANGED <<arg_city_data, arg_prev_data, report,
                   wvars, tvars, mvars, evars, dvars, lvars, hvars, stable_argsort>>

SpecAgg == AggInit /\ [][Analyze]_vars

(***************************************************************************)
(* SpecTrend: one call of analyze_monthly_metrics on a month with enough   *)
(* days for the trend, and the trend panel of the chart made after it.     *)
(* Row i of the frame is published on day TrendDays[i] (the rows are not   *)
(* in day order, and the sixth repeats a day); it is a monthly vacancy,    *)
(* with a low salary on an odd day and a high one on an even day, or an    *)
(* hourly one.                                                             *)
(***************************************************************************)
MaxTrendRows == 9

TrendDays == <<3, 1, 2, 5, 4, 3, 8, 7, 10, 9, 12>>

TrendVacancy(kind, day) ==
    [city_slug |-> "msk", employer |-> Str(<<"a">>),
     salary_period_name |-> IF kind = "hourly" THEN Str(LabelPerHour)
                                               ELSE Str(<<"m", "o", "n", "t", "h">>),
     salary_to_net |-> Num(IF kind = "hourly" THEN 20 ELSE IF day % 2 = 0 THEN 30 ELSE 10),
     salary_from_net |-> NaNum,
     schedule_name |-> NaN,
     published_day |-> day,
     published_weekday |-> <<"Monday", "Tuesday", "Wednesday", "Thursday", "Friday",
                             "Saturday", "Sunday">>[(day % 7) + 1]]

TrendFrames ==
    {Loaded([i \in DOMAIN kinds |-> TrendVacancy(kinds[i], TrendDays[i])]) :
        kinds \in UNION {[1 .. n -> {"monthly", "hourly"}] : n \in 0 .. MaxTrendRows}}

TrendInit ==
    /\ apc = "call"
    /\ arg_city_data \in TrendFrames
    /\ arg_prev_data = NoneFrame
    /\ report = Returned(EmptyDict)
    /\ chart_trend = EmptyDict
    /\ WindowIdle /\ TextIdle /\ MainIdle /\ EmaIdle /\ DurationIdle
    /\ LoadIdle /\ AlertIdle
    /\ stable_argsort = TRUE

SpecTrend == TrendInit /\ [][Analyze \/ DrawTrendPanel]_vars

(***************************************************************************)
(* Spec: main_monthly_report (lines 703-829).  The table of vacancies is   *)
(* the environment's: each load returns some rows of it, or fails.         *)
(***************************************************************************)
MaxLoaded == 2
MaxPrevLoaded == 1

\* The keys of CITIES (lines 22-31), in the order the loop visits them.
CITIES == <<"msk", "spb", "nsk", "ekb", "kzn", "nng", "che", "krk">>

RequiredEnv == {"SUPABASE_URL", "SUPABASE_KEY", "TG_BOT_TOKEN"}

\* The cities that have vacancies in the table.
DataCities == {"msk", "nsk"}

TableRows == {[v EXCEPT !.city_slug = c] : v \in PrevVacancies, c \in DataCities}

\* Lines 157-180: the frame of the rows a query returned, with the columns of
\* the table; pd.DataFrame() when it returned none.
LoadedFrame(columns, raws) ==
    IF Len(raws) = 0 THEN EmptyFrame
    ELSE DataFrame(columns, [i \in 1 .. Len(raws) |-> LoadRow(raws[i])])

\* df[df['city_slug'] == city_slug]
CityRows(df, city_slug) == Filter(df, LAMBDA r : r.city_slug = city_slug)

\* Lines 787-789 without the filter by city.
PrevCityDataUnfiltered(previous, city_slug) ==
    IF ~previous.isnone /\ "city_slug" \in previous.cols THEN previous ELSE NoneFrame

\* Lines 787-789: the comparison rows of the city, or None.
PrevCityData(previous, city_slug) ==
    IF ~previous.isnone /\ "city_slug" \in previous.cols
    THEN CityRows(previous, city_slug)
    ELSE NoneFrame

MainInit ==
    /\ pc = "load_current"
    /\ env \in SUBSET RequiredEnv
    /\ df_current = NoneFrame /\ df_previous = NoneFrame
    /\ city_idx = 0 /\ prev_city_data = NoneFrame /\ city_metrics = EmptyDict
    /\ successful_reports = 0 /\ failed_reports = 0 /\ sent = <<>>
    /\ WindowIdle /\ TextIdle /\ AggIdle /\ EmaIdle /\ DurationIdle
    /\ LoadIdle /\ AlertIdle
    /\ stable_argsort \in BOOLEAN
    /\ attempted = <<>>

\* Line 728 -> 132-133: the loader raises ValueError, main does not catch it.
LoadCurrentConfigError ==
    /\ pc = "load_current"
    /\ ~({"SUPABASE_URL", "SUPABASE_KEY"} \subseteq env)
    /\ pc' = "raised"
    /\ UNCHANGED <<env, df_current, df_previous, city_idx, prev_city_data, city_metrics,
                   successful_reports, failed_reports, sent, attempted,
                   wvars, tvars, avars, evars, dvars, lvars, hvars, stable_argsort>>

\* Line 728: the client or a query raises; main does not catch it.
LoadCurrentFails ==
    /\ pc = "load_current"
    /\ {"SUPABASE_URL", "SUPABASE_KEY"} \subseteq env
    /\ pc' = "raised"
    /\ UNCHANGED <<env, df_current, df_previous, city_idx, prev_city_data, city_metrics,
                   successful_reports, failed_reports, sent, attempted,
                   wvars, tvars, avars, evars, dvars, lvars, hvars, stable_argsort>>

\* Lines 728-732: the report month is loaded; without rows main returns.
LoadCurrent ==
    /\ pc = "load_current"
    /\ {"SUPABASE_URL", "SUPABASE_KEY"} \subseteq env
    /\ \E columns \in {LoadedColumns, LoadedColumns \ {"city_slug"}},
          raws \in SeqsUpTo(TableRows, MaxLoaded) :
          /\ df_current' = LoadedFrame(columns, raws)
          /\ pc' = IF Len(raws) = 0 THEN "no_data" ELSE "load_previous"
    /\ UNCHANGED <<env, df_previous, city_idx, prev_city_data, city_metrics,
                   successful_reports, failed_reports, sent, attempted,
                   wvars, tvars, avars, evars, dvars, lvars, hvars, stable_argsort>>

\* Lines 735-743: the comparison month; None when it has no rows.
LoadPrevious ==
    /\ pc = "load_previous"
    /\ \E raws \in SeqsUpTo(TableRows, MaxPrevLoaded) :
          df_previous' = IF Len(raws) = 0 THEN NoneFrame
                         ELSE LoadedFrame(df_current.cols, raws)
    /\ pc' = "token"
    /\ UNCHANGED <<env, df_current, city_idx, prev_city_data, city_metrics,
                   successful_reports, failed_reports, sent, attempted,
                   wvars, tvars, avars, evars, dvars, lvars, hvars, stable_argsort>>

\* Lines 741-743: the load raises and df_previous stays None.
LoadPreviousFails ==
    /\ pc = "load_previous"
    /\ df_previous' = NoneFrame
    /\ pc' = "token"
    /\ UNCHANGED <<env, df_current, city_idx, prev_city_data, city_metrics,
                   successful_reports, failed_reports, sent, attempted,
                   wvars, tvars, avars, evars, dvars, lvars, hvars, stable_argsort>>

\* Lines 746-760
CheckToken ==
    /\ pc = "token"
    /\ IF "TG_BOT_TOKEN" \in env
       THEN pc' = "loop" /\ city_idx' = 1
       ELSE pc' = "raised" /\ city_idx' = city_idx
    /\ UNCHANGED <<env, df_current, df_previous, prev_city_data, city_metrics,
                   successful_reports, failed_reports, sent, attempted,
                   wvars, tvars, avars, evars, dvars, lvars, hvars, stable_argsort>>

InLoop == pc = "loop" /\ city_idx \in 1 .. Len(CITIES)

\* The next city: the city in hand is forgotten.
NextCity ==
    /\ pc' = "loop"
    /\ city_idx' = city_idx + 1
    /\ prev_city_data' = NoneFrame
    /\ city_metrics' = EmptyDict

\* The except clause letting the exception end the run.
CityFailedAborts ==
    /\ failed_reports' = failed_reports + 1
    /\ pc' = "raised"
    /\ UNCHANGED <<city_idx, prev_city_data, city_metrics, successful_reports, sent>>

\* except Exception (lines 813-818)
CityFailed ==
    /\ failed_reports' = failed_reports + 1
    /\ NextCity
    /\ UNCHANGED <<successful_reports, sent>>

\* Lines 768-770: no column city_slug; the city is skipped and not counted.
CityNoColumn ==
    /\ InLoop
    /\ "city_slug" \notin df_current.cols
    /\ NextCity
    /\ attempted' = Append(attempted, CITIES[city_idx])
    /\ UNCHANGED <<env, df_current, df_previous, successful_reports, failed_reports,
                   sent, wvars, tvars, avars, evars, dvars, lvars, hvars, stable_argsort>>

\* Lines 772-777 with the city skipped and not counted.
CityNoDataUncounted ==
    /\ InLoop
    /\ "city_slug" \in df_current.cols
    /\ Len(CityRows(df_current, CITIES[city_idx]).rows) = 0
    /\ NextCity
    /\ attempted' = Append(attempted, CITIES[city_idx])
    /\ UNCHANGED <<env, df_current, df_previous, successful_reports, failed_reports,
                   sent, wvars, tvars, avars, evars, dvars, lvars, hvars, stable_argsort>>

\* Lines 772-777: the city has no rows.
CityNoData ==
    /\ InLoop
    /\ "city_slug" \in df_current.cols
    /\ Len(CityRows(df_current, CITIES[city_idx]).rows) = 0
    /\ CityFailed
    /\ attempted' = Append(attempted, CITIES[city_idx])
    /\ UNCHANGED <<env, df_current, df_previous,
                   wvars, tvars, avars, evars, dvars, lvars, hvars, stable_argsort>>

\* Lines 779-796: the comparison rows are cut and the metrics computed.
CityAnalyze ==
    /\ InLoop
    /\ "city_slug" \in df_current.cols
    /\ Len(CityRows(df_current, CITIES[city_idx]).rows) > 0
    /\ LET prev == PrevCityData(df_previous, CITIES[city_idx])
           result == analyze_monthly_metrics(CityRows(df_current, CITIES[city_idx]), prev)
       IN  IF result.raised
           THEN CityFailed
           ELSE /\ pc' = "render"
                /\ prev_city_data' = prev
                /\ city_metrics' = result.metrics
                /\ UNCHANGED <<city_idx, successful_reports, failed_reports, sent>>
    /\ attempted' = Append(attempted, CITIES[city_idx])
    /\ UNCHANGED <<env, df_current, df_previous,
                   wvars, tvars, avars, evars, dvars, lvars, hvars, stable_argsort>>

\* Lines 798-804: the image and the text are made, or one of them raises.
CityRender ==
    /\ pc = "render"
    /\ \/ pc' = "send" /\ UNCHANGED <<city_idx, prev_city_data, city_metrics,
                                      successful_reports, failed_reports, sent>>
       \/ CityFailed
    /\ UNCHANGED <<env, df_current, df_previous, attempted,
                   wvars, tvars, avars, evars, dvars, lvars, hvars, stable_argsort>>

\* Lines 806-811: the report is sent, or the send raises.
CitySend ==
    /\ pc = "send"
    /\ \/ /\ sent' = Append(sent, [city |-> CITIES[city_idx], metrics |-> city_metrics])
          /\ successful_reports' = successful_reports + 1
          /\ NextCity
          /\ UNCHANGED failed_reports
       \/ CityFailed
    /\ UNCHANGED <<env, df_current, df_previous, attempted,
                   wvars, tvars, avars, evars, dvars, lvars, hvars, stable_argsort>>

\* Lines 820-829: the loop is over.
Finish ==
    /\ pc = "loop"
    /\ city_idx > Len(CITIES)
    /\ pc' = "done"
    /\ UNCHANGED <<env, df_current, df_previous, city_idx, prev_city_data, city_metrics,
                   successful_reports, failed_reports, sent, attempted,
                   wvars, tvars, avars, evars, dvars, lvars, hvars, stable_argsort>>

Next ==
    \/ LoadCurrentConfigError \/ LoadCurrentFails \/ LoadCurrent
    \/ LoadPrevious \/ LoadPreviousFails \/ CheckToken
    \/ CityNoColumn \/ CityNoData \/ CityAnalyze \/ CityRender \/ CitySend
    \/ Finish

Spec == MainInit /\ [][Next]_vars

(***************************************************************************)
(* SpecEma: the smoothing and the trend of a series of daily means.  The   *)
(* report smooths a series of at least TrendMinDays days with span EmaSpan *)
(* (lines 236-238), the chart one of at least MinChartDays days with span  *)
(* min(7, days) (lines 490-498); analyze_trend_from_ema is also applied to *)
(* the drawn series itself.                                                *)
(***************************************************************************)
MaxShortDays == 3
MaxEmaDays == 8

\* Short series of daily means around 100 that put the change on and next to
\* each threshold, and longer series of two means.
EmaInputs ==
    LET SeriesOf(values, lengths) ==
            {[i \in DOMAIN s |-> Ratio(s[i], 1)] :
                s \in UNION {[1 .. n -> values] : n \in lengths}}
    IN  SeriesOf({0, 88, 90, 96, 98, 100, 102, 104, 110, 112}, 0 .. MaxShortDays)
        \cup SeriesOf({10, 30}, (MaxShortDays + 1) .. MaxEmaDays)

EmaInit ==
    /\ epc = "series"
    /\ ema_in \in EmaInputs
    /\ ema_span = 0 /\ ema_out = <<>> /\ trend_info = EmptyDict
    /\ WindowIdle /\ TextIdle /\ AggIdle /\ MainIdle /\ DurationIdle
    /\ LoadIdle /\ AlertIdle
    /\ stable_argsort = TRUE

\* Lines 236-237
EmaForReport ==
    /\ epc = "series"
    /\ Len(ema_in) >= TrendMinDays
    /\ ema_span' = EmaSpan
    /\ ema_out' = calculate_ema(ema_in, EmaSpan)
    /\ epc' = "ema"
    /\ UNCHANGED <<ema_in, trend_info, wvars, tvars, avars, mvars, dvars, lvars, hvars, stable_argsort>>

\* Lines 490-492
EmaForChart ==
    /\ epc = "series"
    /\ Len(ema_in) >= MinChartDays
    /\ LET span == IF Len(ema_in) < EmaSpan THEN Len(ema_in) ELSE EmaSpan
       IN  ema_span' = span /\ ema_out' = calculate_ema(ema_in, span)
    /\ epc' = "ema"
    /\ UNCHANGED <<ema_in, trend_info, wvars, tvars, avars, mvars, dvars, lvars, hvars, stable_argsort>>

\* Lines 238 and 498
AnalyzeTrend ==
    /\ epc = "ema"
    /\ trend_info' = analyze_trend_from_ema(ema_out)
    /\ epc' = "trend"
    /\ UNCHANGED <<ema_in, ema_span, ema_out, wvars, tvars, avars, mvars, dvars,
                   lvars, hvars, stable_argsort>>

\* analyze_trend_from_ema applied to the drawn series.
AnalyzeSeries ==
    /\ epc = "series"
    /\ ema_out' = ema_in
    /\ trend_info' = analyze_trend_from_ema(ema_in)
    /\ epc' = "trend"
    /\ UNCHANGED <<ema_in, ema_span, wvars, tvars, avars, mvars, dvars, lvars, hvars, stable_argsort>>

EmaNext == EmaForReport \/ EmaForChart \/ AnalyzeTrend \/ AnalyzeSeries

SpecEma == EmaInit /\ [][EmaNext]_vars

(***************************************************************************)
(* SpecDuration: one call of format_duration on two timestamp arguments,   *)
(* well-formed or not.                                                     *)
(***************************************************************************)
NotStamps == {NotStamp(shape) : shape \in {"empty", "no_z", "offset", "text", "none"}}

EndTexts ==
    NotStamps
    \cup {Stamp(y, mo, d, h, mi, sec) :
            y \in {2023, 2024}, mo \in {2, 12, 13}, d \in {1, 29, 31, 32},
            h \in {0, 23, 24}, mi \in {0, 59, 60}, sec \in {0, 59, 60}}

StartTexts ==
    NotStamps
    \cup {Stamp(2024, mo, d, 0, 0, sec) : mo \in {2, 13}, d \in {1, 31}, sec \in {0, 60}}
    \cup {Stamp(2023, 12, 31, 23, 59, 59)}

DurationInit ==
    /\ dpc = "call"
    /\ fd_start \in StartTexts
    /\ fd_end \in EndTexts
    /\ fd_result = DurationText("pending", 0, 0)
    /\ WindowIdle /\ TextIdle /\ AggIdle /\ MainIdle /\ EmaIdle
    /\ LoadIdle /\ AlertIdle
    /\ stable_argsort = TRUE

FormatDuration ==
    /\ dpc = "call"
    /\ fd_result' = format_duration(fd_start, fd_end)
    /\ dpc' = "done"
    /\ UNCHANGED <<fd_start, fd_end, wvars, tvars, avars, mvars, evars, lvars, hvars, stable_argsort>>

SpecDuration == DurationInit /\ [][FormatDuration]_vars

(***************************************************************************)
(* SpecLoad: the page loop of load_monthly_data_from_supabase (lines       *)
(* 138-157; load_data_from_supabase of city_basic_stats.py, lines 64-81,   *)
(* is the same loop without the date filter).  The source answers every    *)
(* request with a page of its choice, of at most MaxPageRows rows, and has *)
(* nothing left after MaxPages pages.  The loop runs on while it can.      *)
(***************************************************************************)
MaxPages == 3
MaxPageRows == 2
limit == 1000

\* response.data: the pages the source may answer with.
Pages == UNION {[1 .. n -> {"r1", "r2"}] : n \in 0 .. MaxPageRows}

LoadInit ==
    /\ lpc = "request"
    /\ page = 0
    /\ all_data = <<>>
    /\ requests = <<>>
    /\ responses = <<>>
    /\ WindowIdle /\ TextIdle /\ AggIdle /\ MainIdle /\ EmaIdle /\ DurationIdle
    /\ AlertIdle
    /\ stable_argsort = TRUE

\* One round of the loop with every page replaced by the next one.
LoadPageKeepsLast ==
    /\ lpc = "request"
    /\ \E data \in Pages :
          /\ page >= MaxPages => data = <<>>
          /\ requests' = Append(requests, <<page * limit, (page + 1) * limit - 1>>)
          /\ responses' = Append(responses, data)
          /\ IF data = <<>>
             THEN lpc' = "done" /\ UNCHANGED <<page, all_data>>
             ELSE lpc' = "request" /\ all_data' = data /\ page' = page + 1
    /\ UNCHANGED <<wvars, tvars, avars, mvars, evars, dvars, hvars, stable_argsort>>

\* Lines 142-156, one round of the loop: the request of the range of the
\* page in hand, then the break on an empty page, or the page added to
\* all_data and the counter moved on.
LoadPage ==
    /\ lpc = "request"
    /\ \E data \in Pages :
          /\ page >= MaxPages => data = <<>>
          /\ requests' = Append(requests, <<page * limit, (page + 1) * limit - 1>>)
          /\ responses' = Append(responses, data)
          /\ IF data = <<>>
             THEN lpc' = "done" /\ UNCHANGED <<page, all_data>>
             ELSE lpc' = "request" /\ all_data' = all_data \o data /\ page' = page + 1
    /\ UNCHANGED <<wvars, tvars, avars, mvars, evars, dvars, hvars, stable_argsort>>

SpecLoad == LoadInit /\ [][LoadPage]_vars /\ WF_vars(LoadPage)

(***************************************************************************)
(* SpecAlert: one run of alert_handler.py.  The environment holds          *)
(*   GITHUB_EVENT_NAME   the event's name, "" when it is not set           *)
(*   EVENT_CONTEXT       by its shape: "absent" (not set), "unparsable"    *)
(*                       (json.loads raises) or "json", and then the       *)
(*                       workflow's name and the run's status and          *)
(*                       conclusion, "(absent)" for a key that is not      *)
(*                       there                                             *)
(*   TG_ALERT_BOT_TOKEN, TG_ALERT_CHAT_ID   whether each is set            *)
(* An alert is kept as the sender called, its alert_type and context, and  *)
(* what the sender returned.  The senders of scripts.alert_sender are not  *)
(* among the sources at hand; when the import succeeds a call of one is    *)
(* recorded and taken to return.                                           *)
(***************************************************************************)
\* Lines 22-41: False without the token or the chat id; else whether the
\* post was answered with 200 (an exception of the post gives False too).
send_simple_alert_fallback(environ, answered) ==
    IF ~environ.TG_ALERT_BOT_TOKEN \/ ~environ.TG_ALERT_CHAT_ID THEN FALSE ELSE answered

\* Lines 96-183, with parse_github_context and get_workflow_info (lines
\* 45-74).  When the import of line 17 failed, line 43 binds
\* send_simple_alert only: send_alert is not defined, and calling it raises
\* NameError.  format_duration (line 131) only makes text of the alert.
handle_workflow_event(environ, imported, answered) ==
    LET event == environ.EVENT_CONTEXT
        get(value, default) ==
            IF event.shape # "json" \/ value = "(absent)" THEN default ELSE value
        workflow_name == IF event.shape # "json" \/ event.name = <<"(absent)">>
                         THEN <<"U", "n", "k", "n", "o", "w", "n">>
                         ELSE event.name
        status == get(event.status, "unknown")
        conclusion == get(event.conclusion, "unknown")
        context_type ==
            IF StrContains(Lower(workflow_name), <<"p", "a", "r", "s", "e">>)
               \/ StrContains(Lower(workflow_name), <<"p", "a", "r", "s", "e", "r">>)
            THEN "parser"
            ELSE IF StrContains(Lower(workflow_name), <<"p", "u", "b", "l", "i", "s", "h">>)
            THEN "publisher"
            ELSE "system"
        send_alert(alert_type) ==
            IF imported
            THEN [raised |-> FALSE,
                  alerts |-> <<[sender |-> "send_alert", alert_type |-> alert_type,
                                context |-> context_type, returned |-> answered]>>]
            ELSE [raised |-> TRUE, alerts |-> <<>>]
    IN  IF status = "requested" THEN send_alert("start")
        ELSE IF status = "completed"
        THEN IF conclusion = "success" THEN send_alert("success")
             ELSE IF conclusion = "failure" THEN send_alert("error")
             ELSE IF conclusion = "cancelled" THEN send_alert("warning")
             ELSE send_alert("info")
        ELSE IF status = "in_progress" THEN [raised |-> FALSE, alerts |-> <<>>]
        ELSE [raised |-> FALSE,
              alerts |-> <<[sender |-> "send_simple_alert", alert_type |-> "simple",
                            context |-> "unknown_status",
                            returned |-> IF imported THEN answered
                                         ELSE send_simple_alert_fallback(environ, answered)]>>]

AlertInit ==
    /\ hpc = "start"
    /\ gh_env \in
         [GITHUB_EVENT_NAME : {"workflow_run", "push", ""},
          EVENT_CONTEXT :
              [shape : {"absent", "unparsable"}, name : {<<>>},
               status : {"(absent)"}, conclusion : {"(absent)"}]
              \cup
              [shape : {"json"},
               name : {<<"P", "a", "r", "s", "e", "r">>, <<"P", "u", "b", "l", "i", "s", "h">>,
                       <<"M", "o", "n", "t", "h">>, <<"(absent)">>},
               status : {"requested", "completed", "in_progress", "queued", "(absent)"},
               conclusion : {"success", "failure", "cancelled", "skipped", "timed_out",
                             "(absent)"}],
          TG_ALERT_BOT_TOKEN : BOOLEAN,
          TG_ALERT_CHAT_ID : BOOLEAN]
    /\ sender_imported \in BOOLEAN
    /\ alerts = <<>>
    /\ WindowIdle /\ TextIdle /\ AggIdle /\ MainIdle /\ EmaIdle /\ DurationIdle
    /\ LoadIdle
    /\ stable_argsort = TRUE

\* Lines 185-200: the event is handled, or reported as unsupported, and the
\* run reaches its last line unless the handling raised.
main ==
    /\ hpc = "start"
    /\ \E answered \in BOOLEAN :
          LET handled ==
                  IF gh_env.GITHUB_EVENT_NAME = "workflow_run"
                  THEN handle_workflow_event(gh_env, sender_imported, answered)
                  ELSE [raised |-> FALSE,
                        alerts |-> <<[sender |-> "send_simple_alert",
                                      alert_type |-> "simple",
                                      context |-> "unsupported_event",
                                      returned |->
                                          IF sender_imported THEN answered
                                          ELSE send_simple_alert_fallback(gh_env, answered)]>>]
          IN  /\ alerts' = handled.alerts
              /\ hpc' = IF handled.raised THEN "raised" ELSE "finished"
    /\ UNCHANGED <<gh_env, sender_imported,
                   wvars, tvars, avars, mvars, evars, dvars, lvars, stable_argsort>>

SpecAlert == AlertInit /\ [][main]_vars

(***************************************************************************)
(*                         Properties                                      *)
(***************************************************************************)

\* Seconds from 2000-01-01T00:00:00 to a civil instant.
DaysBeforeYear(y) == 365 * (y - 1) + (y - 1) \div 4 - (y - 1) \div 100 + (y - 1) \div 400
DaysBeforeMonth(y, m) ==
    <<0, 31, 59, 90, 120, 151, 181, 212, 243, 273, 304, 334>>[m]
    + (IF m > 2 /\ IsLeap(y) THEN 1 ELSE 0)
EpochSeconds(dt) ==
    (DaysBeforeYear(dt.year) - DaysBeforeYear(2000)
     + DaysBeforeMonth(dt.year, dt.month) + dt.day - 1) * SecondsPerDay + dt.tod

\* The month `back` months before the month of rd, as <<year, month>>.
MonthsBack(rd, back) ==
    LET idx == 12 * rd.year + (rd.month - 1) - back
    IN  <<idx \div 12, (idx % 12) + 1>>

\* window is the calendar month `back` months before the month of rd: from
\* 00:00:00 on its day 1 to one second before 00:00:00 on day 1 of the next.
IsCalendarMonth(window, rd, back) ==
    LET target == MonthsBack(rd, back)
        following == MonthsBack(rd, back - 1)
    IN  /\ window[1] = DateTime(target[1], target[2], 1, 0)
        /\ EpochSeconds(window[2]) + 1
             = EpochSeconds(DateTime(following[1], following[2], 1, 0))

\* C1: for every reference instant, get_previous_month_range returns the
\* calendar month before the reference month and
\* get_month_before_previous_range the month before that, each from 00:00:00
\* on day 1 to one second before 00:00:00 on day 1 of the following month.
C1_WindowsAreCalendarMonths ==
    /\ wpc \in {"cur", "cmp"} => IsCalendarMonth(cur_window, report_date, 1)
    /\ wpc = "cmp" => IsCalendarMonth(cmp_window, report_date, 2)

\* C2: the two windows of one run are disjoint and ordered,
\* comparison.start <= comparison.end < current.start <= current.end, and the
\* comparison window ends one second before the current window starts.
C2_WindowsDisjointOrdered ==
    wpc = "cmp" =>
        /\ EpochSeconds(cmp_window[1]) <= EpochSeconds(cmp_window[2])
        /\ EpochSeconds(cmp_window[2]) < EpochSeconds(cur_window[1])
        /\ EpochSeconds(cur_window[1]) <= EpochSeconds(cur_window[2])
        /\ EpochSeconds(cmp_window[2]) + 1 = EpochSeconds(cur_window[1])

\* C3: normalize_text is idempotent, normalize_text(normalize_text(x)) =
\* normalize_text(x), and an absent input is returned as absent.
C3_NormalizeIdempotent ==
    /\ tpc \in {"renorm", "class"} => text_out2 = text_out
    /\ tpc \in {"norm", "renorm", "class"} /\ text_in.isna => text_out = NaN

\* A present text that normalization changes, normalized twice.
C3_Witness ==
    /\ tpc = "renorm" /\ ~text_in.isna
    /\ text_out # text_in /\ Len(text_out.str) > 0
    /\ text_out2 = text_out

\* The Unicode White_Space characters among the characters of the model.
UnicodeWhitespace == {" ", "TAB", "NBSP", "IDSP"}

\* C4: the output of normalize_text for a present input has every run of
\* whitespace (ASCII, non-breaking, the whole Unicode whitespace set)
\* collapsed to exactly one ASCII space, no leading or trailing whitespace,
\* and no upper-case character.
C4_WhitespaceCollapsedCaseFolded ==
    tpc \in {"norm", "renorm", "class"} /\ ~text_in.isna =>
        LET out == text_out.str
        IN  /\ \A i \in 1 .. Len(out) :
                  /\ out[i] \in UnicodeWhitespace => out[i] = " "
                  /\ i > 1 /\ out[i] \in UnicodeWhitespace
                        => out[i - 1] \notin UnicodeWhitespace
                  /\ ~IsUpper(out[i])
            /\ Len(out) > 0 => out[1] \notin UnicodeWhitespace
                               /\ out[Len(out)] \notin UnicodeWhitespace

\* s has one of the keywords 'mesyats', 'month', 'mes' at some position.
ContainsKeyword(s) ==
    \E k \in { <<"ru_m", "ru_e", "ru_s", "ru_ya", "ru_ts">>,
               <<"m", "o", "n", "t", "h">>,
               <<"ru_m", "ru_e", "ru_s">> } :
        \E i \in 1 .. Len(s) : i + Len(k) - 1 <= Len(s) /\ SubSeq(s, i, i + Len(k) - 1) = k

\* C5: is_monthly_salary(label) is true iff the normalized label contains one
\* of the keywords as a substring anywhere; an absent label classifies false.
C5_MonthlyIffKeywordSubstring ==
    tpc = "class" => (is_monthly <=> (~text_in.isna /\ ContainsKeyword(text_out.str)))

\* "  V MESYATS " classifies as monthly: the keyword sits inside the label.
C5_Witness ==
    /\ tpc = "class" /\ text_in = Str(LabelPerMonthUpper) /\ is_monthly
    /\ Len(text_out.str) > 5

SalaryDistributionKeys ==
    {"avg_salary", "median_salary", "salary_std", "q25", "q75", "q90", "q10",
     "avg_salary_range", "vacancies_with_range", "trend_analysis"}

\* C6: analyze_monthly_metrics on a record set of zero records never raises
\* and returns total 0, salary percentage 0, no salary distribution and empty
\* breakdowns.
C6_EmptyRecordSetReport ==
    apc = "done" /\ Len(arg_city_data.rows) = 0 =>
        /\ ~report.raised
        /\ report.metrics["total_vacancies"] = 0
        /\ report.metrics["salary_percentage"] = Ratio(0, 1)
        /\ DOMAIN report.metrics \cap SalaryDistributionKeys = {}
        /\ \A k \in {"top_schedules", "weekday_counts", "top_employers_count"} :
              k \in DOMAIN report.metrics => report.metrics[k] = <<>>

\* The rows of a frame with a monthly salary: the normalized label has a
\* keyword and the net upper bound is present.
MonthlySalaryRows(df) ==
    {i \in 1 .. Len(df.rows) :
        /\ ~df.rows[i].salary_period_name_normalized.isna
        /\ ContainsKeyword(df.rows[i].salary_period_name_normalized.str)
        /\ ~df.rows[i].salary_to_net.isna}

\* C7: with_monthly_salary is the number of records whose label classifies as
\* monthly and whose net upper bound is present; salary_percentage is
\* 100 * with_monthly_salary / total_vacancies, or 0 when there is no record.
C7_MonthlySubsetAndPercentage ==
    apc = "done" /\ ~report.raised =>
        LET m == report.metrics
            total == Len(arg_city_data.rows)
            subset == Cardinality(MonthlySalaryRows(arg_city_data))
        IN  /\ m["total_vacancies"] = total
            /\ m["with_monthly_salary"] = subset
            /\ IF total = 0 THEN m["salary_percentage"] = Ratio(0, 1)
               ELSE m["salary_percentage"].num * total
                        = 100 * subset * m["salary_percentage"].den

\* Three records, two labelled monthly, one of those without a salary.
C7_Witness ==
    /\ apc = "done" /\ ~report.raised
    /\ Len(arg_city_data.rows) = 3
    /\ report.metrics["with_monthly_salary"] = 1
    /\ \E i \in 1 .. 3 :
          /\ ContainsKeyword(arg_city_data.rows[i].salary_period_name_normalized.str)
          /\ arg_city_data.rows[i].salary_to_net.isna
    /\ report.metrics["salary_percentage"] = Ratio(100, 3)

\* C8: with a prior record set of at least one record the report has
\* total_growth = total - prior.total and
\* total_growth_pct = 100 * total_growth / prior.total, prior.total being the
\* number of prior records.
C8_GrowthAgainstPrior ==
    apc = "done" /\ ~report.raised /\ ~arg_prev_data.isnone
    /\ Len(arg_prev_data.rows) >= 1 =>
        LET m == report.metrics
            prior == Len(arg_prev_data.rows)
            growth == Len(arg_city_data.rows) - prior
        IN  /\ {"prev_month_total", "total_growth", "total_growth_pct"} \subseteq DOMAIN m
            /\ m["prev_month_total"] = prior
            /\ m["total_growth"] = growth
            /\ m["total_growth_pct"].num * prior = 100 * growth * m["total_growth_pct"].den

\* Twice as many records as in the prior period: growth of 100 percent.
C8_Witness ==
    /\ apc = "done" /\ ~report.raised
    /\ Len(arg_city_data.rows) = 2 /\ ~arg_prev_data.isnone /\ Len(arg_prev_data.rows) = 1
    /\ report.metrics["total_growth_pct"] = Ratio(100, 1)

\* A prior record set that was supplied and has no record.
PriorTotalZero == ~arg_prev_data.isnone /\ Len(arg_prev_data.rows) = 0

\* C9 as stated: with a prior total of 0 and a positive current total the
\* report has total_growth_pct with the value 0.
C9_ZeroPriorGivesZeroPct ==
    apc = "done" /\ PriorTotalZero /\ Len(arg_city_data.rows) > 0 =>
        /\ ~report.raised
        /\ "total_growth_pct" \in DOMAIN report.metrics
        /\ report.metrics["total_growth_pct"] = Ratio(0, 1)

\* C9 as amended: with a prior total of 0 and a positive current total the
\* call raises nothing and the report has no total_growth_pct; a report has
\* total_growth_pct only for a prior total that is positive.
C9_ZeroPriorOmitsPct ==
    /\ apc = "done" /\ PriorTotalZero /\ Len(arg_city_data.rows) > 0 =>
          ~report.raised /\ "total_growth_pct" \notin DOMAIN report.metrics
    /\ apc = "done" /\ "total_growth_pct" \in DOMAIN report.metrics =>
          report.metrics["prev_month_total"] > 0

\* Two current records against a prior frame without records.
C9_Witness ==
    /\ apc = "done" /\ PriorTotalZero /\ Len(arg_city_data.rows) = 2
    /\ ~report.raised /\ report.metrics["total_vacancies"] = 2

GrowthKeys ==
    {"prev_month_total", "total_growth", "total_growth_pct", "salary_growth",
     "salary_growth_pct"}

\* The comparison month has no record of the city, or was not loaded.
NoComparison(city_slug) ==
    \/ df_previous.isnone
    \/ "city_slug" \notin df_previous.cols
    \/ Len(CityRows(df_previous, city_slug).rows) = 0

\* C10: when the comparison window has no record of a city, or no comparison
\* data was loaded, the city's report has none of the growth fields, the
\* analysis raises nothing, and the report goes on to be rendered and sent.
C10_NoComparisonNoGrowthFields ==
    /\ pc \in {"render", "send"} /\ NoComparison(CITIES[city_idx])
          => DOMAIN city_metrics \cap GrowthKeys = {}
    /\ \A i \in 1 .. Len(sent) :
          NoComparison(sent[i].city) => DOMAIN sent[i].metrics \cap GrowthKeys = {}
    /\ InLoop /\ "city_slug" \in df_current.cols /\ NoComparison(CITIES[city_idx])
       /\ Len(CityRows(df_current, CITIES[city_idx]).rows) > 0
          => ~analyze_monthly_metrics(CityRows(df_current, CITIES[city_idx]),
                                      PrevCityData(df_previous, CITIES[city_idx])).raised

\* A report was sent for a city without records in a comparison month that
\* has records of another city.
C10_Witness ==
    \E i \in 1 .. Len(sent) :
        /\ ~df_previous.isnone
        /\ NoComparison(sent[i].city)
        /\ sent[i].metrics["total_vacancies"] > 0

\* The days of the month on which the monthly-salary rows of a frame were
\* published.
MonthlySalaryDays(df) == {df.rows[i].published_day : i \in MonthlySalaryRows(df)}

\* C11: the report has the key trend_analysis if and only if the
\* monthly-salary rows fall on at least 7 distinct days of the month; with
\* fewer days the key is absent and the call raises nothing.
C11_TrendKeyIffSevenDays ==
    apc = "done" =>
        /\ ~report.raised
        /\ ("trend_analysis" \in DOMAIN report.metrics)
             <=> (Cardinality(MonthlySalaryDays(arg_city_data)) >= 7)

\* A report with the trend whose frame has more rows than monthly-salary days.
C11_Witness ==
    /\ apc = "done"
    /\ "trend_analysis" \in DOMAIN report.metrics
    /\ Len(arg_city_data.rows) > Cardinality(MonthlySalaryDays(arg_city_data))

\* The difference b - a of two ratios, in lowest terms.
Difference(b, a) ==
    LET n == b.num * a.den - a.num * b.den
        d == b.den * a.den
        g == GCD(IF n < 0 THEN -n ELSE n, d)
    IN  [num |-> n \div g, den |-> d \div g]

\* 100 * change / start in lowest terms, 0 when start is 0.
PctOf(change, start) ==
    IF start.num = 0 THEN [num |-> 0, den |-> 1]
    ELSE LET n == 100 * change.num * start.den
             d == change.den * start.num
             g == GCD(IF n < 0 THEN -n ELSE n, d)
         IN  [num |-> n \div g, den |-> d \div g]

ConstantMonth(series) ==
    Len(series) >= 7 /\ \A i \in DOMAIN series : series[i] = series[1]

\* C13: for a daily series of at least 7 days whose means all equal c, every
\* EMA value equals c and the trend has start = end = c, change = 0,
\* pct = 0, direction sideways and strength weak.
C13_ConstantSeriesIsFlat ==
    (epc \in {"ema", "trend"} /\ ConstantMonth(ema_in)) =>
        /\ Len(ema_out) = Len(ema_in)
        /\ \A i \in DOMAIN ema_out : ema_out[i] = ema_in[1]
        /\ epc = "trend" =>
              /\ trend_info["start"] = ema_in[1] /\ trend_info["end"] = ema_in[1]
              /\ trend_info["change"] = [num |-> 0, den |-> 1]
              /\ trend_info["pct"] = [num |-> 0, den |-> 1]
              /\ trend_info["direction"] = "bokovoy"
              /\ trend_info["strength"] = "slabyy"

\* The trend of a smoothed month of 8 days that all have the mean 30.
C13_Witness ==
    /\ epc = "trend"
    /\ ema_span = 7
    /\ Len(ema_in) = 8
    /\ ConstantMonth(ema_in)
    /\ ema_out[8] = [num |-> 30, den |-> 1]
    /\ trend_info["strength"] = "slabyy"

\* An employer that is absent, empty or made of whitespace only.
IsBlankEmployer(row) ==
    row.employer.isna \/ \A i \in DOMAIN row.employer.str :
                            row.employer.str[i] \in UnicodeWhitespace

\* The bucket a record is to be counted in: the 'unspecified' one ("Ne ukazan")
\* for a blank employer, else the employer's name without the whitespace
\* around it.
EmployerBucket(row) ==
    IF IsBlankEmployer(row)
    THEN <<"RU_N", "ru_e", " ", "ru_u", "ru_k", "ru_a", "ru_z", "ru_a", "ru_n">>
    ELSE Strip(row.employer.str)

BucketSize(df, bucket) ==
    Cardinality({i \in DOMAIN df.rows : EmployerBucket(df.rows[i]) = bucket})

\* C14: in the table of the top employers by count every record with an
\* absent or blank employer is counted in the one 'unspecified' bucket, which
\* is ranked like any employer; the table has at most 5 entries, and they are
\* the buckets with the largest record counts.
C14_BlankEmployersUnspecified ==
    (apc = "done" /\ ~report.raised) =>
        LET table == report.metrics["top_employers_count"]
            rows == arg_city_data.rows
            listed == {table[i][1] : i \in DOMAIN table}
        IN  /\ Len(table) <= 5
            /\ \A i \in DOMAIN table : table[i][2] = BucketSize(arg_city_data, table[i][1])
            /\ \A i, j \in DOMAIN table : i < j => table[i][2] >= table[j][2]
            /\ \A r \in DOMAIN rows :
                   \/ EmployerBucket(rows[r]) \in listed
                   \/ /\ Len(table) = 5
                      /\ \A i \in DOMAIN table :
                             table[i][2] >= BucketSize(arg_city_data, EmployerBucket(rows[r]))

\* The number of monthly-salary rows of the employer of row i.
MonthlyRowsOfEmployer(df, i) ==
    Cardinality({j \in MonthlySalaryRows(df) :
                    EmployerClean(df.rows[j]) = EmployerClean(df.rows[i])})

\* C15: whenever an employer has 3 or more records in the monthly-salary
\* subset, the report has the table of the top employers by mean salary; it
\* holds at most 5 employers, each with at least 3 monthly-salary records,
\* by mean net salary descending.
C15_EmployerSalaryTablePresent ==
    (apc = "done" /\ ~report.raised
     /\ \E i \in MonthlySalaryRows(arg_city_data) :
            MonthlyRowsOfEmployer(arg_city_data, i) >= 3) =>
        /\ "top_employers_salary" \in DOMAIN report.metrics
        /\ LET table == report.metrics["top_employers_salary"]
           IN  /\ Len(table) \in 1 .. 5
               /\ \A k \in DOMAIN table :
                      \E i \in MonthlySalaryRows(arg_city_data) :
                          /\ EmployerClean(arg_city_data.rows[i]) = table[k][1]
                          /\ MonthlyRowsOfEmployer(arg_city_data, i) >= 3
               /\ \A k, l \in DOMAIN table : k < l => table[k][2] >= table[l][2]

WeekOrder ==
    <<"Monday", "Tuesday", "Wednesday", "Thursday", "Friday", "Saturday", "Sunday">>

WeekdayCount(df, day) ==
    Cardinality({i \in DOMAIN df.rows : df.rows[i].published_weekday = day})

\* C16: top_weekday is a weekday with the largest record count, and of
\* several weekdays with that count the earliest in the order Monday,
\* Tuesday, ..., Sunday, whatever the order of the records.
C16_TopWeekdayEarliestOfTies ==
    (apc = "done" /\ ~report.raised /\ Len(arg_city_data.rows) > 0) =>
        \E d \in DOMAIN WeekOrder :
            /\ report.metrics["top_weekday"] = WeekOrder[d]
            /\ \A e \in DOMAIN WeekOrder :
                   /\ WeekdayCount(arg_city_data, WeekOrder[e])
                        <= WeekdayCount(arg_city_data, WeekOrder[d])
                   /\ e < d => WeekdayCount(arg_city_data, WeekOrder[e])
                                  < WeekdayCount(arg_city_data, WeekOrder[d])

\* The frame with its rows in the order p.
Reordered(df, p) == [df EXCEPT !.rows = [i \in DOMAIN df.rows |-> df.rows[p[i]]]]

\* The frame as it was handed to the call: the call adds employer_clean.
AsHanded(df) == [df EXCEPT !.cols = df.cols \ {"employer_clean"}]

TableKeys == {"top_schedules", "weekday_counts", "top_employers_count",
              "top_employers_salary"}

\* Two reports are equal as dictionaries: the same keys with equal values, a
\* table being equal to another when it has the same keys with the same
\* values.
EqualReports(a, b) ==
    /\ a.raised = b.raised
    /\ DOMAIN a.metrics = DOMAIN b.metrics
    /\ \A k \in DOMAIN a.metrics :
           IF k \in TableKeys
           THEN {a.metrics[k][i] : i \in DOMAIN a.metrics[k]}
                  = {b.metrics[k][i] : i \in DOMAIN b.metrics[k]}
           ELSE a.metrics[k] = b.metrics[k]

\* C17: the report does not depend on the order of the records: the call
\* returns an equal report for every reordering of the same records.
C17_ReportIndependentOfOrder ==
    apc = "done" =>
        \A p \in Permutations(DOMAIN arg_city_data.rows) :
            EqualReports(report,
                         analyze_monthly_metrics(Reordered(AsHanded(arg_city_data), p),
                                                 AsHanded(arg_prev_data)))

\* The cities of the report month's frame that have rows.
CitiesWithRows ==
    IF df_current.isnone \/ "city_slug" \notin df_current.cols THEN {}
    ELSE {df_current.rows[i].city_slug : i \in DOMAIN df_current.rows}

\* C18: an exception raised while a city's report is analyzed, rendered or
\* sent does not end the run: once the loop has begun the run is never
\* aborted, the cities taken up so far are the first of the configured list,
\* each once and in its order, and the run ends with all of them taken up.
C18_LoopSurvivesCityFailure ==
    /\ Len(attempted) <= Len(CITIES)
    /\ \A i \in DOMAIN attempted : attempted[i] = CITIES[i]
    /\ pc = "raised" => attempted = <<>>
    /\ pc \in {"render", "send"} => attempted[Len(attempted)] = CITIES[city_idx]
    /\ pc = "done" => attempted = CITIES

\* A finished run in which the first city had rows but its report failed, and
\* a later city's report was sent.
C18_Witness ==
    /\ pc = "done"
    /\ CITIES[1] \in CitiesWithRows
    /\ Len(sent) = 1 /\ sent[1].city = CITIES[3]
    /\ failed_reports = Len(CITIES) - 1

\* C19: when SUPABASE_URL, SUPABASE_KEY or TG_BOT_TOKEN is missing, no city
\* is taken up, analyzed or sent, and the run does not end normally (neither
\* after the loop nor by the early return).
C19_MissingConfigAborts ==
    ({"SUPABASE_URL", "SUPABASE_KEY", "TG_BOT_TOKEN"} \ env # {}) =>
        /\ attempted = <<>> /\ sent = <<>>
        /\ pc \notin {"loop", "render", "send"}
        /\ pc \notin {"done", "no_data"}

\* The argument is a timestamp YYYY-MM-DDTHH:MM:SSZ of a date and a time of
\* day that exist.
WellFormedStamp(text) ==
    /\ text.shape = "stamp"
    /\ text.year >= 1
    /\ text.month \in 1 .. 12
    /\ text.day >= 1
    /\ text.day <= (IF text.month = 2
                    THEN (IF (text.year % 4 = 0 /\ text.year % 100 # 0) \/ text.year % 400 = 0
                          THEN 29 ELSE 28)
                    ELSE IF text.month \in {4, 6, 9, 11} THEN 30 ELSE 31)
    /\ text.hour \in 0 .. 23 /\ text.minute \in 0 .. 59 /\ text.second \in 0 .. 59

\* C20: format_duration never raises, and when start or end is not a
\* well-formed timestamp YYYY-MM-DDTHH:MM:SSZ (the empty string included) it
\* returns the text "unknown".
C20_FormatDurationNeverRaises ==
    dpc = "done" =>
        /\ ~fd_result.raised
        /\ (~WellFormedStamp(fd_start) \/ ~WellFormedStamp(fd_end))
             => fd_result.kind = "unknown"

\* A call with a well-formed start and the end 29 February 2023 returned
\* "unknown".
C20_Witness ==
    /\ dpc = "done"
    /\ WellFormedStamp(fd_start)
    /\ fd_end.shape = "stamp" /\ fd_end.year = 2023 /\ fd_end.month = 2 /\ fd_end.day = 29
    /\ fd_end.hour = 0 /\ fd_end.minute = 0 /\ fd_end.second = 0
    /\ fd_result.kind = "unknown" /\ ~fd_result.raised

\* C21: analyze_monthly_metrics is a pure function of its record set: the
\* call leaves the record sets it was given as they were, no row or column
\* added, removed or modified.
C21_AnalyzeLeavesRecordSet ==
    [][apc = "call" => /\ arg_city_data' = arg_city_data
                       /\ arg_prev_data' = arg_prev_data]_vars

\* The k-th smallest of a finite set of integers.
KthSmallest(S, k) == CHOOSE d \in S : Cardinality({e \in S : e < d}) = k - 1

\* The mean net salary of the monthly-salary rows of a frame published on
\* day d.
DayMean(df, d) ==
    LET on_day == {i \in MonthlySalaryRows(df) : df.rows[i].published_day = d}
        total[i \in 0 .. Len(df.rows)] ==
            IF i = 0 THEN 0
            ELSE total[i - 1] + (IF i \in on_day THEN df.rows[i].salary_to_net.val ELSE 0)
    IN  Ratio(total[Len(df.rows)], Cardinality(on_day))

\* The exponential moving average of a series for a span: the first value is
\* the first observation, each later one moves from the previous value
\* towards the observation by the fraction 2 / (span + 1) of their distance.
Smoothed(series, span) ==
    LET ema[t \in DOMAIN series] ==
            IF t = 1 THEN series[1]
            ELSE RatioAdd(ema[t - 1],
                          RatioMul(Ratio(2, span + 1), Difference(series[t], ema[t - 1])))
    IN  ema

\* C22: the trend series is the mean net salary of each day of the month that
\* has a monthly-salary record, in ascending order of the day and without the
\* days that have none; the EMA has the span min(7, number of days), starts at
\* the first day's mean and blends each later day's mean with the previous
\* value by a = 2 / (span + 1).  The trend of the report starts at the first
\* and ends at the last value of that EMA.
C22_TrendSeriesAndEma ==
    (apc = "done" /\ ~report.raised /\ "trend_analysis" \in DOMAIN report.metrics) =>
        LET days == MonthlySalaryDays(arg_city_data)
            n == Cardinality(days)
            series == [k \in 1 .. n |-> DayMean(arg_city_data, KthSmallest(days, k))]
            ema == Smoothed(series, IF n < 7 THEN n ELSE 7)
            trend == report.metrics["trend_analysis"]
        IN  /\ trend["start"] = series[1]
            /\ trend["end"] = ema[n]

\* A trend over eight days with days missing in between, from rows that are
\* not in the order of their days, two of them of the same day.
C22_Witness ==
    /\ apc = "done"
    /\ "trend_analysis" \in DOMAIN report.metrics
    /\ Cardinality(MonthlySalaryDays(arg_city_data)) = 8
    /\ Cardinality(MonthlySalaryRows(arg_city_data)) = 9
    /\ 6 \notin MonthlySalaryDays(arg_city_data)
    /\ 7 \in MonthlySalaryDays(arg_city_data)
    /\ report.metrics["trend_analysis"]["end"] # report.metrics["trend_analysis"]["start"]

\* The pages of a sequence of pages joined in their order.
RECURSIVE Concatenated(_)
Concatenated(pages) ==
    IF pages = <<>> THEN <<>> ELSE Head(pages) \o Concatenated(Tail(pages))

\* What C23 says of every state of the page loop.
PagesInOrder ==
    LET non_empty == {k \in DOMAIN responses : responses[k] # <<>>}
    IN  /\ Len(requests) = Len(responses)
        /\ \A k \in DOMAIN requests :
               /\ requests[k] = <<(k - 1) * 1000, k * 1000 - 1>>
               /\ Len(responses[k]) <= 1000
               /\ k > 1 => requests[k][1] = requests[k - 1][2] + 1
        /\ \A k \in DOMAIN responses :
               responses[k] = <<>> => (k = Len(responses) /\ lpc = "done")
        /\ lpc = "done" => /\ responses[Len(responses)] = <<>>
                           /\ Len(requests) = Cardinality(non_empty) + 1
        /\ all_data = Concatenated(responses)

\* C23: the loader requests the consecutive ranges k*1000 .. (k+1)*1000-1,
\* stops at the first empty page, which it reaches when the source runs out,
\* has then made one request more than it received non-empty pages, and
\* returns the rows of the non-empty pages joined in the order of the
\* requests, each row once.
C23_PagesUntilEmpty == []PagesInOrder /\ <>(lpc = "done")

\* A finished load of three non-empty pages, the second shorter than the
\* others.
C23_Witness ==
    /\ lpc = "done"
    /\ Len(requests) = 4
    /\ Len(responses[1]) = 2 /\ Len(responses[2]) = 1 /\ Len(responses[3]) = 2
    /\ Len(all_data) = 5

\* C24: when the frame has the column city_slug, the loop counts every city
\* it has dealt with exactly once; when it is over, successful_reports +
\* failed_reports is the number of configured cities, successful_reports is
\* the number of reports sent, each for another city that has rows, and a city
\* without rows or whose report raised is among the failed.
C24_EveryCityCountedOnce ==
    (~df_current.isnone /\ "city_slug" \in df_current.cols) =>
        /\ successful_reports = Len(sent)
        /\ \A i, j \in DOMAIN sent : sent[i].city = sent[j].city => i = j
        /\ \A i \in DOMAIN sent : sent[i].city \in CitiesWithRows
        /\ pc = "loop" => successful_reports + failed_reports = Len(attempted)
        /\ pc \in {"render", "send"} =>
               successful_reports + failed_reports = Len(attempted) - 1
        /\ pc = "done" =>
               /\ successful_reports + failed_reports = Len(CITIES)
               /\ failed_reports
                    = Cardinality({i \in DOMAIN CITIES :
                                      \A k \in DOMAIN sent : sent[k].city # CITIES[i]})
               /\ failed_reports >= Len(CITIES) - Cardinality(CitiesWithRows)

\* A finished run with a report sent, a city without rows, and a city with
\* rows whose report raised.
C24_Witness ==
    /\ pc = "done"
    /\ "city_slug" \in df_current.cols
    /\ successful_reports = 1
    /\ failed_reports = Len(CITIES) - 1
    /\ Cardinality(CitiesWithRows) = 2

\* C25: in every report 0 <= vacancies_with_range <= with_monthly_salary <=
\* total_vacancies and 0 <= salary_percentage <= 100, and the counts of the
\* weekday table add up to at most total_vacancies.
C25_CountsAreNested ==
    (apc = "done" /\ ~report.raised) =>
        LET m == report.metrics
            table == m["weekday_counts"]
            counted[i \in 0 .. Len(table)] ==
                IF i = 0 THEN 0 ELSE counted[i - 1] + table[i][2]
        IN  /\ 0 <= m["with_monthly_salary"]
            /\ m["with_monthly_salary"] <= m["total_vacancies"]
            /\ "vacancies_with_range" \in DOMAIN m =>
                   /\ 0 <= m["vacancies_with_range"]
                   /\ m["vacancies_with_range"] <= m["with_monthly_salary"]
            /\ m["salary_percentage"].den > 0
            /\ 0 <= m["salary_percentage"].num
            /\ m["salary_percentage"].num <= 100 * m["salary_percentage"].den
            /\ \A i \in DOMAIN table : table[i][2] >= 1
            /\ counted[Len(table)] <= m["total_vacancies"]

\* A report in which all the inequalities are strict: three records, two of
\* them with a monthly salary, one of those with a range.
C25_Witness ==
    /\ apc = "done" /\ ~report.raised
    /\ report.metrics["total_vacancies"] = 3
    /\ report.metrics["with_monthly_salary"] = 2
    /\ report.metrics["vacancies_with_range"] = 1
    /\ report.metrics["salary_percentage"] = Ratio(200, 3)
    /\ Len(report.metrics["weekday_counts"]) = 2

\* The order of two ratios with positive denominators.
Below(a, b) == a.num * b.den < b.num * a.den

\* C26: in every trend descriptor direction and strength agree: a strong or
\* moderate trend is upward or downward, a sideways trend is weak, an upward
\* trend ends above its start and a downward trend below it.
C26_DirectionAgreesWithStrength ==
    (epc = "trend" /\ trend_info # EmptyDict) =>
        LET direction == trend_info["direction"]
            strength == trend_info["strength"]
        IN  /\ direction \in {"voskhodyashchiy", "niskhodyashchiy", "bokovoy"}
            /\ strength \in {"silnyy", "umerennyy", "slabyy"}
            /\ strength \in {"silnyy", "umerennyy"} => direction # "bokovoy"
            /\ direction = "bokovoy" => strength = "slabyy"
            /\ direction = "voskhodyashchiy" => Below(trend_info["start"], trend_info["end"])
            /\ direction = "niskhodyashchiy" => Below(trend_info["end"], trend_info["start"])

\* A weak trend that is not sideways: downward by 2 percent.
C26_Witness ==
    /\ epc = "trend"
    /\ trend_info # EmptyDict
    /\ trend_info["strength"] = "slabyy"
    /\ trend_info["direction"] = "niskhodyashchiy"
    /\ trend_info["pct"] = [num |-> -2, den |-> 1]

\* C27: the chart and the report of one partition agree on the trend: the
\* chart has a trend annotation only when the report has trend_analysis, and
\* then the annotation's direction, strength and percentage (to one decimal)
\* are those of the report's trend descriptor.
C27_ChartTrendIsReportTrend ==
    (apc = "drawn" /\ chart_trend # EmptyDict) =>
        /\ "trend_analysis" \in DOMAIN report.metrics
        /\ LET trend == report.metrics["trend_analysis"]
               tenths == chart_trend["pct"]
           IN  /\ chart_trend["strength"] = trend["strength"]
               /\ chart_trend["direction"]
                    = (IF trend["direction"] = "voskhodyashchiy" THEN "VOSKHODYASHCHIY"
                       ELSE IF trend["direction"] = "niskhodyashchiy" THEN "NISKHODYASHCHIY"
                       ELSE "BOKOVOY")
               /\ (2 * tenths - 1) * trend["pct"].den <= 20 * trend["pct"].num
               /\ 20 * trend["pct"].num <= (2 * tenths + 1) * trend["pct"].den

\* C28: for every run date, the 29th, 30th and 31st of a month that follows
\* a shorter one included, the month and year of the chart title are computed
\* without error and are those of the start of the report window that
\* get_previous_month_range returns for the same date.
C28_ChartTitleIsReportMonth ==
    wpc = "title" =>
        /\ ~chart_title.raised
        /\ chart_title.month = cur_window[1].month
        /\ chart_title.year = cur_window[1].year

\* C29: for a workflow_run event handle_workflow_event sends exactly one
\* alert, chosen by the run's status and conclusion: requested -> "start";
\* completed -> "success" for success, "error" for failure, "warning" for
\* cancelled, "info" for any other conclusion; in_progress -> no alert; any
\* other status, and a context that is missing or cannot be parsed -> one
\* simple alert.
C29_AlertChosenByStatus ==
    (hpc # "start" /\ gh_env.GITHUB_EVENT_NAME = "workflow_run") =>
        LET event == gh_env.EVENT_CONTEXT
            status == IF event.shape = "json" THEN event.status ELSE "(absent)"
            types == [i \in DOMAIN alerts |-> alerts[i].alert_type]
        IN  IF status = "requested" THEN types = <<"start">>
            ELSE IF status = "completed"
            THEN types = <<CASE event.conclusion = "success" -> "success"
                             [] event.conclusion = "failure" -> "error"
                             [] event.conclusion = "cancelled" -> "warning"
                             [] OTHER -> "info">>
            ELSE IF status = "in_progress" THEN alerts = <<>>
            ELSE types = <<"simple">> /\ alerts[1].sender = "send_simple_alert"

\* C30: with the fallback sender installed (scripts.alert_sender could not
\* be imported) the run reaches its last step for every event, whatever the
\* status, the conclusion or the event's name, and without the alert bot's
\* token or chat id a send only returns false.
C30_FallbackHandlesEveryEvent ==
    (~sender_imported /\ hpc # "start") =>
        /\ hpc = "finished"
        /\ (~gh_env.TG_ALERT_BOT_TOKEN \/ ~gh_env.TG_ALERT_CHAT_ID) =>
               \A i \in DOMAIN alerts : ~alerts[i].returned
====
